---- MODULE Spec2Model ----
(***************************************************************************)
(* field_execd: the loopback daemon that brokers SSH operations.           *)
(*                                                                         *)
(* The model follows src/rust/field_execd/src/main.rs.  Every tokio task   *)
(* is a process: one connection handler per accepted socket                *)
(* (handle_connection), its writer task, and one stream task per           *)
(* ssh.start.  The runtime is multi-threaded (#[tokio::main]), so the      *)
(* processes interleave at every await point, and JoinHandle::abort only   *)
(* takes effect when the aborted task next returns Pending.                *)
(***************************************************************************)
EXTENDS Integers, Sequences, FiniteSets, TLC

(* ------------------------------ bounds --------------------------------- *)

\* client connections accepted by the daemon
NumConns == 2
\* request frames the clients send in total (all connections), when they
\* use every method
MaxReq == 2
\* the same, for clients that use hello, ssh.exec and ssh.write_file only
MaxReqPool == 4
\* the same, for clients that use hello and the stream methods only
MaxReqStream == 3
\* connections of such clients
NumStreamConns == 1
\* the same, for clients that use hello and ssh.start only
MaxReqStart == 4
\* the same, for clients that use hello, ssh.start and ssh.reset_all only
MaxReqReset == 6
\* distinct PoolKeys the clients' targets map to
NumKeys == 2
\* stream_line events the streams emit in total
MaxLines == 1
\* characters a remote command writes to its stdout, for the line framing
MaxOut == 4
\* ports the listener can be bound to, and connections accepted
NumPorts == 2
MaxAccept == 2
\* chunks the command of ssh.write_file writes to stdout and stderr
MaxChunks == 4

Conns == 1..NumConns
Keys == 1..NumKeys
\* at most one stream per request frame, so ids never leave this range
MaxFrames ==
    LET B == {MaxReq, MaxReqPool, MaxReqStream, MaxReqStart, MaxReqReset}
    IN  CHOOSE x \in B : \A y \in B : y <= x
StreamIds == 1..MaxFrames

(* ------------------------- program constants --------------------------- *)

\* main: let protocol: u32 = 1
ServerProtocol == 1
\* main: hex_token(32), an opaque secret
ServerToken == "T"

(* ------------------------------- state --------------------------------- *)

VARIABLES
    authed,          \* handle_connection: `authed`, per connection
    hpc,             \* where each connection handler stands
    hreq,            \* the request the handler is serving
    nreq,            \* request frames read so far (all connections)
    limit,           \* request frames the clients send in total
    pool,            \* SshConnectionPool.clients: set of [key, sess]
    nextSess,        \* identity of the next Client that connect() returns
    next_stream_id,  \* DaemonState.next_stream_id
    tasks,           \* ConnectionStreams.tasks: the stream ids registered
    hdrain,          \* ids left in the handler's g.drain() iteration
    tpc,             \* where each stream task stands
    tinfo,           \* what each stream task captured: owner, pool_key, client
    tlines,          \* stream_line events the streams have sent
    aborted,         \* JoinHandle::abort() was called on the stream task
    outbox,          \* every line sent on the connection's mpsc channel
    written,         \* lines the writer task has written to the socket
    wpart,           \* what is on the socket of the line it is writing
    wst,             \* state of the writer task
    fout,            \* line framing: what the remote command writes
    fchunks,         \* line framing: the chunks of it still to be received
    out_pending,     \* line framing: the stream task's out_pending
    flines,          \* line framing: the lines of the stream_line events sent
    fst,             \* line framing: "loop" (receiving), "done" (tail handled)
    bpc,             \* bootstrap: where main is
    port,            \* bootstrap: the --port argument, 0 for any
    actual_port,     \* bootstrap: the port of the bound listener, 0 before
    token,           \* bootstrap: the minted token, "" before
    server_cfg,      \* bootstrap: the token handlers compare hello with
    tmp_path,        \* bootstrap: the file at <path>.tmp
    state_file,      \* bootstrap: the file at the configured path
    accepted,        \* bootstrap: connections accepted
    wf_pc,           \* ssh_write_file: where the handler is in it
    write_task,      \* ssh_write_file: the task running execute_io
    remote_out,      \* ssh_write_file: chunks the command is still to write
    stdout_rx,       \* ssh_write_file: chunks in the stdout channel
    stderr_rx,       \* ssh_write_file: chunks in the stderr channel
    drain,           \* ssh_write_file: the drain task
    pool_key         \* ssh_write_file: the PoolKey of the target

vars == <<authed, hpc, hreq, nreq, limit, pool, nextSess, next_stream_id,
          tasks, hdrain, tpc, tinfo, tlines, aborted, outbox, written, wpart,
          wst, fout, fchunks, out_pending, flines, fst,
          bpc, port, actual_port, token, server_cfg, tmp_path, state_file,
          accepted, wf_pc, write_task, remote_out, stdout_rx, stderr_rx,
          drain, pool_key>>

fvars == <<fout, fchunks, out_pending, flines, fst>>
bvars == <<bpc, port, actual_port, token, server_cfg, tmp_path, state_file,
           accepted>>
\* what the handlers and tasks of the connections leave alone
dvars == <<wf_pc, write_task, remote_out, stdout_rx, stderr_rx, drain,
           pool_key>>
xvars == <<fvars, bvars, dvars>>
hvars == <<authed, hpc, hreq, nreq, limit, xvars>>
pvars == <<pool, nextSess>>
svars == <<next_stream_id, tasks, hdrain, tpc, tinfo, tlines, aborted>>
tvars == <<tpc, tinfo, tlines, aborted>>
wvars == <<written, wpart, wst>>

(* ------------------------------ frames --------------------------------- *)

\* ResponseEnvelope {id, ok, result, error}: `body` is the result or the error
ResponseEnvelope(id, ok, body, n, m) ==
    [type |-> "response", id |-> id, ok |-> ok, body |-> body, n |-> n, m |-> m]

\* EventEnvelope::StreamLine {stream_id, ..}
StreamLine(sid) ==
    [type |-> "stream_line", id |-> 0, ok |-> TRUE, body |-> "", n |-> sid,
     m |-> 0]

\* EventEnvelope::StreamExit {stream_id, exit_status, error}; ok is
\* exit_status >= 0 (a remote exit code), body the error text
StreamExit(sid, ok, error) ==
    [type |-> "stream_exit", id |-> 0, ok |-> ok, body |-> error, n |-> sid,
     m |-> 0]

\* what a handler keeps of the request it serves: the envelope's id and method
\* and the locals of the operation (pool_key, client, stream_id, `first`,
\* the number of client.execute calls, the two counts of ssh.reset_all).
\* pool0 is history: the size of the pool when an ssh.reset_all was read
NoReq == [id |-> 0, method |-> "", key |-> 0, sid |-> 0, sess |-> 0,
          nexec |-> 0, first |-> "none", cancelled |-> 0, cleared |-> 0,
          pool0 |-> 0]

\* handle_request has returned: its locals are gone, the envelope is kept
Finished(r) == [NoReq EXCEPT !.id = r.id, !.method = r.method]

NoTask == [owner |-> 0, key |-> 0, sess |-> 0, res |-> "none"]

(* ------------------------------ Outbox --------------------------------- *)

\* the receiver half lives in the writer task: the channel is open while
\* that task has neither ended nor been dropped
ChannelOpen(c) == wst[c] \in {"run", "aborting"}

\* Outbox::send_json: a send on a closed channel fails and the line is lost
SendJson(q, c, frame) == IF ChannelOpen(c) THEN Append(q, frame) ELSE q

send_response_ok(q, c, id, body, n) ==
    SendJson(q, c, ResponseEnvelope(id, TRUE, body, n, 0))

send_response_err(q, c, id, error) ==
    SendJson(q, c, ResponseEnvelope(id, FALSE, error, 0, 0))

(* --------------------------- SshConnectionPool -------------------------- *)

PoolHas(p, k) == \E e \in p : e.key = k

\* SshConnectionPool::get
PoolGet(p, k) == IF PoolHas(p, k) THEN (CHOOSE e \in p : e.key = k).sess ELSE 0

\* an insert that keeps the entry the key already has
PoolInsertKeepFirst(p, k, s) ==
    IF PoolHas(p, k) THEN p ELSE p \cup {[key |-> k, sess |-> s]}

\* SshConnectionPool::insert (HashMap::insert replaces the entry of the key)
PoolInsert(p, k, s) == {e \in p : e.key # k} \cup {[key |-> k, sess |-> s]}

\* SshConnectionPool::remove
PoolRemove(p, k) == {e \in p : e.key # k}

\* async_ssh2_tokio::Error values the SSH transport is let to fail with:
\* a generic protocol failure, the same with a text that names a broken
\* pipe, an I/O error of kind BrokenPipe made from the OS error, one made
\* from the kind alone, and an error should_reconnect does not list
SshErrors == {"SshError", "SshErrorBrokenPipeText", "IoBrokenPipe",
              "IoBrokenPipeNoCode", "CommandDidntExit"}

\* e.to_string(), as the words of the message: an io::Error of an OS error
\* prints the OS text and code, one made from its kind the kind's text in
\* lower case
to_string(e) ==
    CASE e = "IoBrokenPipe" -> <<"Broken", "pipe", "(os", "error", "32)">>
      [] e = "IoBrokenPipeNoCode" -> <<"broken", "pipe">>
      [] e = "IoConnectionReset" ->
            <<"Connection", "reset", "by", "peer", "(os", "error", "104)">>
      [] e = "SshErrorBrokenPipeText" ->
            <<"Ssh", "error:", "Broken", "pipe", "(os", "error", "32)">>
      [] e = "SshError" -> <<"Ssh", "error:", "Disconnected">>
      [] e = "CommandDidntExit" -> <<"Command", "didn't", "exit">>
      [] OTHER -> <<e>>

\* str::contains: the words of pat are in msg, in a row and letter for
\* letter
contains(msg, pat) ==
    \E i \in 0..(Len(msg) - Len(pat)) :
       \A j \in 1..Len(pat) : msg[i + j] = pat[j]

\* the errors client.execute / execute_io are let to resolve with
RunErrors == {"SshError", "CommandDidntExit"}

\* a classification that calls no error transient
NeverReconnect(e) == FALSE

\* SshConnectionPool::should_reconnect
should_reconnect(e) ==
    \/ e \in {"SshError", "SshErrorBrokenPipeText", "SendError",
              "ChannelSendError"}
    \/ e \in {"IoBrokenPipe", "IoBrokenPipeNoCode", "IoConnectionReset",
              "IoConnectionAborted", "IoNotConnected", "IoUnexpectedEof",
              "IoTimedOut"}

(* ------------------------------- Init ---------------------------------- *)

InitProgram(n) ==
    /\ limit = n
    /\ authed = [c \in Conns |-> FALSE]
    /\ hpc = [c \in Conns |-> "read"]
    /\ hreq = [c \in Conns |-> NoReq]
    /\ nreq = 0
    /\ pool = {}
    /\ nextSess = 1
    /\ next_stream_id = 1
    /\ tasks = [c \in Conns |-> {}]
    /\ hdrain = [c \in Conns |-> {}]
    /\ tpc = [s \in StreamIds |-> "none"]
    /\ tinfo = [s \in StreamIds |-> NoTask]
    /\ tlines = 0
    /\ aborted = [s \in StreamIds |-> FALSE]
    /\ outbox = [c \in Conns |-> <<>>]
    /\ written = [c \in Conns |-> 0]
    /\ wpart = [c \in Conns |-> "none"]
    /\ wst = [c \in Conns |-> "run"]

\* a file that does not exist, a file created and not written in full, and
\* the record write_state_file serialises
NoFile == [kind |-> "absent"]
PartialFile == [kind |-> "partial"]

StateFileRequestedPort(p, t) ==
    [kind |-> "record", version |-> 1, port |-> port, token |-> t,
     protocol |-> ServerProtocol]

StateFile(p, t) ==
    [kind |-> "record", version |-> 1, port |-> p, token |-> t,
     protocol |-> ServerProtocol]

\* the ports the listener may get and the tokens hex_token may give
Ports == 1..NumPorts
Tokens == {ServerToken, "U"}

\* main is in its accept loop: bound, the token minted and published
Booted ==
    /\ bpc = "accept" /\ port = 0 /\ actual_port = 1
    /\ token = ServerToken /\ server_cfg = ServerToken
    /\ tmp_path = NoFile /\ state_file = StateFile(1, ServerToken)
    /\ accepted = 0

\* no ssh_write_file is followed step by step
NoWriteFile ==
    /\ wf_pc = "done" /\ write_task = "done" /\ remote_out = <<>>
    /\ stdout_rx = 0 /\ stderr_rx = 0 /\ drain = "done" /\ pool_key = 0

\* no stream's output is being followed
FramingIdle ==
    /\ fout = <<>> /\ fchunks = <<>> /\ out_pending = <<>>
    /\ flines = <<>> /\ fst = "done"

InitWith(n) == InitProgram(n) /\ FramingIdle /\ Booted /\ NoWriteFile

Init == InitWith(MaxReq)

(* ----------------------- handle_connection: loop ----------------------- *)

\* the handler is at lines.next_line() and the client may send a frame
CanRead(c) == hpc[c] = "read" /\ nreq < limit

\* a request envelope with a fresh client-chosen id
NewReq(method) == [NoReq EXCEPT !.id = nreq + 1, !.method = method]

Methods == {"hello", "ssh.exec", "ssh.start", "ssh.cancel", "ssh.reset_all",
            "ssh.write_file", "ssh.generate_key", "ssh.authorized_key_line",
            "ssh.install_public_key", "bogus"}

\* a gate that lets every method through
AdmittedAlways(c, method) == TRUE

\* the unauthenticated branch lets only hello through to handle_request
Admitted(c, method) == authed[c] \/ method = "hello"

\* a blank or whitespace-only line, or one serde_json::from_str rejects:
\* `continue`
ReadMalformed(c) ==
    /\ CanRead(c)
    /\ nreq' = nreq + 1
    /\ UNCHANGED <<authed, limit, xvars, hpc, hreq, pvars, svars, outbox, wvars>>

\* a line whose bytes are not UTF-8: next_line() gives Err(InvalidData) and
\* the `?` returns it out of handle_connection
ReadInvalidUtf8(c) ==
    /\ CanRead(c)
    /\ nreq' = nreq + 1
    /\ hpc' = [hpc EXCEPT ![c] = "failed"]
    /\ UNCHANGED <<authed, limit, xvars, hreq, pvars, svars, outbox, wvars>>

\* !authed and req.method != "hello": respond unauthorized and break
ReadUnauthorized(c) ==
    /\ CanRead(c)
    /\ \E m \in Methods :
          /\ ~Admitted(c, m)
          /\ hreq' = [hreq EXCEPT ![c] = [NoReq EXCEPT !.id = nreq + 1]]
          /\ outbox' = [outbox EXCEPT
                ![c] = send_response_err(@, c, nreq + 1, "unauthorized")]
    /\ nreq' = nreq + 1
    /\ hpc' = [hpc EXCEPT ![c] = "sweep"]
    /\ hdrain' = [hdrain EXCEPT ![c] = tasks[c]]
    /\ tasks' = [tasks EXCEPT ![c] = {}]
    /\ UNCHANGED <<authed, limit, xvars, pvars, next_stream_id, tvars, wvars>>

(* --------------------------- handle_request ---------------------------- *)

\* hello params the client may send; "undecodable" fails serde_json::from_value
HelloParams ==
    [decodes : {TRUE}, protocol : {ServerProtocol, ServerProtocol + 1},
     token : {ServerToken, "wrong"}]
    \cup {[decodes |-> FALSE, protocol |-> 0, token |-> ""]}

\* "hello": Ok(()) or Err(()) of handle_request
HelloResult(c, p) ==
    IF ~p.decodes THEN "err"
    ELSE IF p.protocol # ServerProtocol THEN "err"
    ELSE IF p.token # ServerToken THEN "err"
    ELSE IF ChannelOpen(c) THEN "ok" ELSE "err"

\* "hello": the lines it sends
HelloSend(q, c, id, p) ==
    IF ~p.decodes THEN q
    ELSE IF p.protocol # ServerProtocol
        THEN send_response_err(q, c, id, "protocol mismatch")
    ELSE IF p.token # ServerToken
        THEN send_response_err(q, c, id, "unauthorized")
    ELSE send_response_ok(q, c, id, "protocol", ServerProtocol)

\* whether the handler leaves its loop after handle_request returned `res`:
\* only the unauthenticated branch looks at the result
BreaksLoop(c, res) == ~authed[c] /\ res = "err"

ReadHello(c) ==
    /\ CanRead(c)
    /\ \E p \in HelloParams :
          LET id == nreq + 1
              res == HelloResult(c, p)
              brk == BreaksLoop(c, res)
          IN  /\ hreq' = [hreq EXCEPT ![c] = NewReq("hello")]
              /\ outbox' = [outbox EXCEPT ![c] = HelloSend(@, c, id, p)]
              /\ authed' = [authed EXCEPT ![c] = @ \/ res = "ok"]
              /\ hpc' = [hpc EXCEPT ![c] = IF brk THEN "sweep" ELSE "read"]
              /\ hdrain' = [hdrain EXCEPT ![c] = IF brk THEN tasks[c] ELSE @]
              /\ tasks' = [tasks EXCEPT ![c] = IF brk THEN {} ELSE @]
    /\ nreq' = nreq + 1
    /\ UNCHANGED <<limit, xvars, pvars, next_stream_id, tvars, wvars>>

\* `_ =>` arm: unknown method
ReadUnknown(c) ==
    /\ CanRead(c)
    /\ Admitted(c, "bogus")
    /\ hreq' = [hreq EXCEPT ![c] = NewReq("bogus")]
    /\ outbox' = [outbox EXCEPT
          ![c] = send_response_err(@, c, nreq + 1, "unknown method")]
    /\ nreq' = nreq + 1
    /\ UNCHANGED <<authed, limit, xvars, hpc, pvars, svars, wvars>>

\* ssh.generate_key, ssh.authorized_key_line, ssh.install_public_key: no
\* shared state; the params decode or not, the operation succeeds or fails.
\* The first two, and what ssh_install_public_key checks before it connects,
\* have no await before the response
KeyMethods == {"ssh.generate_key", "ssh.authorized_key_line",
               "ssh.install_public_key"}

KeyOpSend(q, c, id, outcome) ==
    CASE outcome = "undecodable" -> q
      [] outcome = "ok" -> send_response_ok(q, c, id, "result", 0)
      [] OTHER -> send_response_err(q, c, id, "operation failed")

ReadKeyOp(c) ==
    /\ CanRead(c)
    /\ \E m \in KeyMethods, outcome \in {"undecodable", "ok", "failed"} :
          /\ Admitted(c, m)
          /\ m = "ssh.install_public_key" => outcome # "ok"
          /\ hreq' = [hreq EXCEPT ![c] = NewReq(m)]
          /\ outbox' = [outbox EXCEPT ![c] = KeyOpSend(@, c, nreq + 1, outcome)]
    /\ nreq' = nreq + 1
    /\ UNCHANGED <<authed, limit, xvars, hpc, pvars, svars, wvars>>

\* "ssh.install_public_key" with params that decode, a user_at_host and a
\* key that pass: the handler goes to wait in Client::connect
ReadInstall(c) ==
    /\ CanRead(c)
    /\ Admitted(c, "ssh.install_public_key")
    /\ hreq' = [hreq EXCEPT ![c] = NewReq("ssh.install_public_key")]
    /\ hpc' = [hpc EXCEPT ![c] = "install_connect"]
    /\ nreq' = nreq + 1
    /\ UNCHANGED <<authed, limit, xvars, pvars, svars, outbox, wvars>>

\* outcomes of timeout(connect_timeout, Client::connect(..)) and of
\* timeout(command_timeout, client.execute(..)) in ssh_install_public_key
InstallOutcomes == {"ok", "timeout", "failed"}

\* the error string ssh_install_public_key returns
InstallError(step, outcome) ==
    IF outcome = "timeout"
    THEN (IF step = "connect" THEN "SSH connect timeout"
          ELSE "SSH command timeout")
    ELSE "operation failed"

\* timeout(connect_timeout, Client::connect(..)) resolves; on an error the
\* response is sent
InstallConnect(c) ==
    /\ hpc[c] = "install_connect"
    /\ \E o \in InstallOutcomes :
          IF o = "ok"
          THEN /\ hpc' = [hpc EXCEPT ![c] = "install_exec"]
               /\ UNCHANGED <<hreq, outbox>>
          ELSE /\ outbox' = [outbox EXCEPT ![c] =
                     send_response_err(@, c, hreq[c].id,
                                       InstallError("connect", o))]
               /\ hreq' = [hreq EXCEPT ![c] = Finished(@)]
               /\ hpc' = [hpc EXCEPT ![c] = "read"]
    /\ UNCHANGED <<authed, limit, xvars, nreq, pvars, svars, wvars>>

\* timeout(command_timeout, client.execute(..)) resolves and the response
\* is sent
InstallExec(c) ==
    /\ hpc[c] = "install_exec"
    /\ \E o \in InstallOutcomes :
          outbox' = [outbox EXCEPT ![c] =
              IF o = "ok" THEN send_response_ok(@, c, hreq[c].id, "result", 0)
              ELSE send_response_err(@, c, hreq[c].id,
                                     InstallError("execute", o))]
    /\ hreq' = [hreq EXCEPT ![c] = Finished(@)]
    /\ hpc' = [hpc EXCEPT ![c] = "read"]
    /\ UNCHANGED <<authed, limit, xvars, nreq, pvars, svars, wvars>>

(* ------------------------------ ssh.exec ------------------------------- *)

\* what the client may put in `target`: params that do not decode, a target
\* parse_target / ssh_get_client rejects, or a target of PoolKey k
TargetInputs ==
    {[kind |-> "undecodable", key |-> 0], [kind |-> "invalid", key |-> 0]}
    \cup [kind : {"valid"}, key : Keys]

\* outcomes of timeout(command_timeout, client.execute(..))
ExecOutcomes == {"ok", "timeout"} \cup RunErrors

\* the error string ssh_exec returns for an outcome
ExecError(outcome) ==
    IF outcome = "timeout" THEN "SSH command timeout" ELSE outcome

\* handle_request "ssh.exec": the response for ssh_exec's result
ExecRespond(q, c, id, outcome) ==
    IF outcome = "ok" THEN send_response_ok(q, c, id, "result", 0)
    ELSE send_response_err(q, c, id, ExecError(outcome))

\* ssh_exec up to the first pool.get of ssh_get_client
ReadExec(c) ==
    /\ CanRead(c)
    /\ Admitted(c, "ssh.exec")
    /\ \E t \in TargetInputs :
          LET id == nreq + 1
              r == NewReq("ssh.exec")
          IN  CASE t.kind = "undecodable" ->
                    /\ hreq' = [hreq EXCEPT ![c] = r]
                    /\ UNCHANGED <<hpc, outbox>>
                [] t.kind = "invalid" ->
                    /\ hreq' = [hreq EXCEPT ![c] = r]
                    /\ outbox' = [outbox EXCEPT
                          ![c] = send_response_err(@, c, id, "invalid target")]
                    /\ UNCHANGED hpc
                [] OTHER ->
                    IF PoolHas(pool, t.key)
                    THEN /\ hreq' = [hreq EXCEPT ![c] =
                                [r EXCEPT !.key = t.key, !.sess = PoolGet(pool, t.key),
                                          !.nexec = 1]]
                         /\ hpc' = [hpc EXCEPT ![c] = "exec_first"]
                         /\ UNCHANGED outbox
                    ELSE /\ hreq' = [hreq EXCEPT ![c] = [r EXCEPT !.key = t.key]]
                         /\ hpc' = [hpc EXCEPT ![c] = "exec_connect"]
                         /\ UNCHANGED outbox
    /\ nreq' = nreq + 1
    /\ UNCHANGED <<authed, limit, xvars, pvars, svars, wvars>>

\* get_or_connect_*: the connect resolves; on success insert and execute
ExecConnect(c) ==
    /\ hpc[c] = "exec_connect"
    /\ \E ok \in BOOLEAN :
          IF ok
          THEN /\ pool' = PoolInsert(pool, hreq[c].key, nextSess)
               /\ nextSess' = nextSess + 1
               /\ hreq' = [hreq EXCEPT ![c].sess = nextSess, ![c].nexec = 1]
               /\ hpc' = [hpc EXCEPT ![c] = "exec_first"]
               /\ UNCHANGED outbox
          ELSE /\ outbox' = [outbox EXCEPT
                     ![c] = send_response_err(@, c, hreq[c].id, "connect failed")]
               /\ hreq' = [hreq EXCEPT ![c] = Finished(@)]
               /\ hpc' = [hpc EXCEPT ![c] = "read"]
               /\ UNCHANGED pvars
    /\ UNCHANGED <<authed, limit, xvars, nreq, svars, wvars>>

\* a guard that also retries a timeout
RetriesOnTimeout(o) ==
    o = "timeout" \/ (o \in SshErrors /\ should_reconnect(o))

\* the guard of the retry arm: Ok(Err(e)) if should_reconnect(&e); a
\* timeout is Err(String) and an exit status is Ok(Ok(res))
Retries(o) == o \in SshErrors /\ should_reconnect(o)

\* the `match first` of ssh_exec, the first attempt having resolved with o
ExecFirstWith(c, o) ==
    /\ hpc[c] = "exec_first"
    /\ IF Retries(o)
       THEN /\ hreq' = [hreq EXCEPT ![c].first = o]
            /\ pool' = PoolRemove(pool, hreq[c].key)
            /\ hpc' = [hpc EXCEPT ![c] = "exec_retry"]
            /\ UNCHANGED outbox
       ELSE /\ hreq' = [hreq EXCEPT ![c] = Finished(@)]
            /\ outbox' = [outbox EXCEPT
                  ![c] = ExecRespond(@, c, hreq[c].id, o)]
            /\ hpc' = [hpc EXCEPT ![c] = "read"]
            /\ UNCHANGED pool
    /\ UNCHANGED <<authed, limit, xvars, nreq, nextSess, svars, wvars>>

ExecFirst(c) == \E o \in ExecOutcomes : ExecFirstWith(c, o)

\* the retry arm: ssh_get_client again, its pool.get
ExecRetry(c) ==
    /\ hpc[c] = "exec_retry"
    /\ IF PoolHas(pool, hreq[c].key)
       THEN /\ hreq' = [hreq EXCEPT ![c].sess = PoolGet(pool, hreq[c].key),
                                     ![c].nexec = @ + 1]
            /\ hpc' = [hpc EXCEPT ![c] = "exec_second"]
       ELSE /\ hpc' = [hpc EXCEPT ![c] = "exec_reconnect"]
            /\ UNCHANGED hreq
    /\ UNCHANGED <<authed, limit, xvars, nreq, pvars, svars, outbox, wvars>>

\* the retry arm: the reconnect resolves
ExecReconnect(c) ==
    /\ hpc[c] = "exec_reconnect"
    /\ \E ok \in BOOLEAN :
          IF ok
          THEN /\ pool' = PoolInsert(pool, hreq[c].key, nextSess)
               /\ nextSess' = nextSess + 1
               /\ hreq' = [hreq EXCEPT ![c].sess = nextSess, ![c].nexec = @ + 1]
               /\ hpc' = [hpc EXCEPT ![c] = "exec_second"]
               /\ UNCHANGED outbox
          ELSE /\ outbox' = [outbox EXCEPT
                     ![c] = send_response_err(@, c, hreq[c].id, "connect failed")]
               /\ hreq' = [hreq EXCEPT ![c] = Finished(@)]
               /\ hpc' = [hpc EXCEPT ![c] = "read"]
               /\ UNCHANGED pvars
    /\ UNCHANGED <<authed, limit, xvars, nreq, svars, wvars>>

\* the retry arm: client2.execute resolves with o, which is returned
ExecSecondWith(c, o) ==
    /\ hpc[c] = "exec_second"
    /\ outbox' = [outbox EXCEPT ![c] = ExecRespond(@, c, hreq[c].id, o)]
    /\ hreq' = [hreq EXCEPT ![c] = Finished(@)]
    /\ hpc' = [hpc EXCEPT ![c] = "read"]
    /\ UNCHANGED <<authed, limit, xvars, nreq, pvars, svars, wvars>>

ExecSecond(c) == \E o \in ExecOutcomes : ExecSecondWith(c, o)

(* --------------------------- ssh.write_file ---------------------------- *)

\* outcomes of the write: a send on stdin that fails because execute_io
\* has returned already, exit 0, another exit code, the command timeout, or
\* a transport error
WriteOutcomes == {"stdin send failed", "ok", "nonzero", "timeout"} \cup SshErrors

\* ssh_write_file evicts on e.contains("Broken pipe") ||
\* e.contains("Connection reset"), e being the message of the error
WriteEvicts(o) ==
    /\ o \in SshErrors
    /\ \/ contains(to_string(o), <<"Broken", "pipe">>)
       \/ contains(to_string(o), <<"Connection", "reset">>)

WriteRespond(q, c, id, o) ==
    CASE o = "ok" -> send_response_ok(q, c, id, "result", 0)
      [] o = "nonzero" -> send_response_err(q, c, id, "write failed")
      [] OTHER -> send_response_err(q, c, id, ExecError(o))

ReadWriteFile(c) ==
    /\ CanRead(c)
    /\ Admitted(c, "ssh.write_file")
    /\ \E t \in TargetInputs :
          LET id == nreq + 1
              r == NewReq("ssh.write_file")
          IN  CASE t.kind = "undecodable" ->
                    /\ hreq' = [hreq EXCEPT ![c] = r]
                    /\ UNCHANGED <<hpc, outbox>>
                [] t.kind = "invalid" ->
                    /\ hreq' = [hreq EXCEPT ![c] = r]
                    /\ outbox' = [outbox EXCEPT
                          ![c] = send_response_err(@, c, id, "invalid target")]
                    /\ UNCHANGED hpc
                [] OTHER ->
                    IF PoolHas(pool, t.key)
                    THEN /\ hreq' = [hreq EXCEPT ![c] =
                                [r EXCEPT !.key = t.key, !.sess = PoolGet(pool, t.key)]]
                         /\ hpc' = [hpc EXCEPT ![c] = "write_run"]
                         /\ UNCHANGED outbox
                    ELSE /\ hreq' = [hreq EXCEPT ![c] = [r EXCEPT !.key = t.key]]
                         /\ hpc' = [hpc EXCEPT ![c] = "write_connect"]
                         /\ UNCHANGED outbox
    /\ nreq' = nreq + 1
    /\ UNCHANGED <<authed, limit, xvars, pvars, svars, wvars>>

WriteConnect(c) ==
    /\ hpc[c] = "write_connect"
    /\ \E ok \in BOOLEAN :
          IF ok
          THEN /\ pool' = PoolInsert(pool, hreq[c].key, nextSess)
               /\ nextSess' = nextSess + 1
               /\ hreq' = [hreq EXCEPT ![c].sess = nextSess]
               /\ hpc' = [hpc EXCEPT ![c] = "write_run"]
               /\ UNCHANGED outbox
          ELSE /\ outbox' = [outbox EXCEPT
                     ![c] = send_response_err(@, c, hreq[c].id, "connect failed")]
               /\ hreq' = [hreq EXCEPT ![c] = Finished(@)]
               /\ hpc' = [hpc EXCEPT ![c] = "read"]
               /\ UNCHANGED pvars
    /\ UNCHANGED <<authed, limit, xvars, nreq, svars, wvars>>

\* a send on stdin fails and the `?` returns, or the write task resolves
\* with o: `match status`
\* On an error whose message evicts, pool.remove comes first and the
\* response is sent in a later step, the pool's lock released in between
WriteRunWith(c, o) ==
    /\ hpc[c] = "write_run"
    /\ IF WriteEvicts(o)
       THEN /\ pool' = PoolRemove(pool, hreq[c].key)
            /\ hreq' = [hreq EXCEPT ![c].first = o]
            /\ hpc' = [hpc EXCEPT ![c] = "write_respond"]
            /\ UNCHANGED outbox
       ELSE /\ hreq' = [hreq EXCEPT ![c] = Finished(@)]
            /\ outbox' = [outbox EXCEPT
                  ![c] = WriteRespond(@, c, hreq[c].id, o)]
            /\ hpc' = [hpc EXCEPT ![c] = "read"]
            /\ UNCHANGED pool
    /\ UNCHANGED <<authed, limit, xvars, nreq, nextSess, svars, wvars>>

WriteRun(c) == \E o \in WriteOutcomes : WriteRunWith(c, o)

\* Err(e) => outbox.send_response_err(id, e), after the eviction
WriteAnswer(c) ==
    /\ hpc[c] = "write_respond"
    /\ outbox' = [outbox EXCEPT
          ![c] = WriteRespond(@, c, hreq[c].id, hreq[c].first)]
    /\ hreq' = [hreq EXCEPT ![c] = Finished(@)]
    /\ hpc' = [hpc EXCEPT ![c] = "read"]
    /\ UNCHANGED <<authed, limit, xvars, nreq, pvars, svars, wvars>>

(* ------------------------------ ssh.start ------------------------------ *)

\* a spawn that takes its id with a load and leaves the counter as it is
SpawnSameId(c, r, sess) ==
    /\ next_stream_id' = next_stream_id
    /\ tpc' = [tpc EXCEPT ![next_stream_id] = "running"]
    /\ tinfo' = [tinfo EXCEPT ![next_stream_id] =
          [owner |-> c, key |-> r.key, sess |-> sess, res |-> "none"]]
    /\ hreq' = [hreq EXCEPT ![c] =
          [r EXCEPT !.sess = sess, !.sid = next_stream_id]]
    /\ hpc' = [hpc EXCEPT ![c] = "start_insert"]

\* fetch_add on next_stream_id and tokio::spawn of the stream task
Spawn(c, r, sess) ==
    /\ next_stream_id' = next_stream_id + 1
    /\ tpc' = [tpc EXCEPT ![next_stream_id] = "running"]
    /\ tinfo' = [tinfo EXCEPT ![next_stream_id] =
          [owner |-> c, key |-> r.key, sess |-> sess, res |-> "none"]]
    /\ hreq' = [hreq EXCEPT ![c] =
          [r EXCEPT !.sess = sess, !.sid = next_stream_id]]
    /\ hpc' = [hpc EXCEPT ![c] = "start_insert"]

\* "ssh.start" up to the pool.get of ssh_get_client.  An Err of
\* ssh_get_client goes through map_err(|e| { let _ =
\* outbox.send_response_err(id, e); () })?: the future is built and dropped,
\* never awaited, so nothing is sent
ReadStart(c) ==
    /\ CanRead(c)
    /\ Admitted(c, "ssh.start")
    /\ \E t \in TargetInputs :
          LET r == NewReq("ssh.start")
          IN  CASE t.kind \in {"undecodable", "invalid"} ->
                    /\ hreq' = [hreq EXCEPT ![c] = r]
                    /\ UNCHANGED hpc
                [] OTHER ->
                    IF PoolHas(pool, t.key)
                    THEN /\ hreq' = [hreq EXCEPT ![c] =
                                [r EXCEPT !.key = t.key,
                                          !.sess = PoolGet(pool, t.key)]]
                         /\ hpc' = [hpc EXCEPT ![c] = "start_spawn"]
                    ELSE /\ hreq' = [hreq EXCEPT ![c] = [r EXCEPT !.key = t.key]]
                         /\ hpc' = [hpc EXCEPT ![c] = "start_connect"]
    /\ nreq' = nreq + 1
    /\ UNCHANGED <<authed, limit, xvars, pvars, svars, outbox, wvars>>

\* the connect of ssh_get_client resolves; on Ok the session is inserted in
\* the pool, whose lock is released before the stream id is taken
StartConnect(c) ==
    /\ hpc[c] = "start_connect"
    /\ \E ok \in BOOLEAN :
          IF ok
          THEN /\ pool' = PoolInsert(pool, hreq[c].key, nextSess)
               /\ nextSess' = nextSess + 1
               /\ hreq' = [hreq EXCEPT ![c].sess = nextSess]
               /\ hpc' = [hpc EXCEPT ![c] = "start_spawn"]
          ELSE /\ hreq' = [hreq EXCEPT ![c].first = "connect failed"]
               /\ hpc' = [hpc EXCEPT ![c] = "read"]
               /\ UNCHANGED pvars
    /\ UNCHANGED <<authed, limit, xvars, nreq, svars, outbox, wvars>>

\* next_stream_id.fetch_add(1) and tokio::spawn of the stream task, on the
\* client ssh_get_client has returned
StartSpawn(c) ==
    /\ hpc[c] = "start_spawn"
    /\ Spawn(c, hreq[c], hreq[c].sess)
    /\ UNCHANGED <<authed, limit, xvars, nreq, pvars, tasks, hdrain, tlines,
                   aborted, outbox, wvars>>

\* streams.tasks.lock().await.insert(stream_id, handle)
StartInsert(c) ==
    /\ hpc[c] = "start_insert"
    /\ tasks' = [tasks EXCEPT ![c] = @ \cup {hreq[c].sid}]
    /\ hpc' = [hpc EXCEPT ![c] = "start_respond"]
    /\ UNCHANGED <<authed, limit, xvars, hreq, nreq, pvars, next_stream_id, hdrain,
                   tvars, outbox, wvars>>

\* outbox.send_response_ok(id, SshStartResult { stream_id })
StartRespond(c) ==
    /\ hpc[c] = "start_respond"
    /\ outbox' = [outbox EXCEPT
          ![c] = send_response_ok(@, c, hreq[c].id, "stream_id", hreq[c].sid)]
    /\ hreq' = [hreq EXCEPT ![c] = Finished(@)]
    /\ hpc' = [hpc EXCEPT ![c] = "read"]
    /\ UNCHANGED <<authed, limit, xvars, nreq, pvars, svars, wvars>>

(* --------------------------- the stream task --------------------------- *)

\* the handler of connection c holds the guard of streams.tasks across
\* awaits: in ssh.cancel (the `if let` scrutinee's temporary lives to the
\* end of the statement), in ssh.reset_all and in the closing sweep (`g`)
TableLocked(c) ==
    hpc[c] \in {"cancel_emit", "reset_emit", "reset_send", "reset_respond",
               "sweep", "sweep_send"}

\* the task is past its last use of pool_key, client and exit_status (or has
\* ended): they are dropped, the owner is remembered
Ended(t) == [NoTask EXCEPT !.owner = t.owner]

Live(s) == tpc[s] \in {"running", "drain", "exit", "remove"}

\* a chunk holding a newline arrives (select loop or the final drain), or
\* the trimmed tail is not empty: one stream_line
TaskLine(s) ==
    /\ tpc[s] \in {"running", "drain"}
    /\ tlines < MaxLines
    /\ tlines' = tlines + 1
    /\ outbox' = [outbox EXCEPT
          ![tinfo[s].owner] = SendJson(@, tinfo[s].owner, StreamLine(s))]
    /\ UNCHANGED <<hvars, pvars, next_stream_id, tasks, hdrain, tpc, tinfo,
                   aborted, wvars>>

\* exec_future resolves: `break result`
TaskResolve(s) ==
    /\ tpc[s] = "running"
    /\ \E o \in {"ok", "ok_overflow"} \cup RunErrors :
          tinfo' = [tinfo EXCEPT ![s].res = o]
    /\ tpc' = [tpc EXCEPT ![s] = "drain"]
    /\ UNCHANGED <<hvars, pvars, next_stream_id, tasks, hdrain, tlines, aborted,
                   outbox, wvars>>

\* an Err(e) arm that goes on without touching the pool
TaskEvictKeeps(s) ==
    /\ tpc[s] = "drain"
    /\ tinfo[s].res \in SshErrors /\ should_reconnect(tinfo[s].res)
    /\ tpc' = [tpc EXCEPT ![s] = "exit"]
    /\ UNCHANGED <<hvars, pvars, next_stream_id, tasks, hdrain, tinfo, tlines,
                   aborted, outbox, wvars>>

\* Err(e) arm: pool.remove(&pool_key) when should_reconnect(&e)
TaskEvict(s) ==
    /\ tpc[s] = "drain"
    /\ tinfo[s].res \in SshErrors /\ should_reconnect(tinfo[s].res)
    /\ pool' = PoolRemove(pool, tinfo[s].key)
    /\ tpc' = [tpc EXCEPT ![s] = "exit"]
    /\ UNCHANGED <<hvars, nextSess, next_stream_id, tasks, hdrain, tinfo, tlines,
                   aborted, outbox, wvars>>

\* the exit_status of the task's stream_exit: i32::try_from(code)
\* .unwrap_or(-1) for Ok(code), which is -1 for a code above i32::MAX
\* ("ok_overflow"; 0 stands for the codes that fit), and -1 for Err
exit_status(res) == IF res = "ok" THEN 0 ELSE -1

\* the task's own stream_exit for the result of the exec
TaskStreamExit(s) ==
    StreamExit(s, exit_status(tinfo[s].res) >= 0,
               IF tinfo[s].res \in {"ok", "ok_overflow"} THEN ""
               ELSE tinfo[s].res)

\* `match exit_status`: send the stream_exit
TaskExit(s) ==
    /\ \/ tpc[s] = "exit"
       \/ /\ tpc[s] = "drain"
          /\ ~(tinfo[s].res \in SshErrors /\ should_reconnect(tinfo[s].res))
    /\ outbox' = [outbox EXCEPT
          ![tinfo[s].owner] = SendJson(@, tinfo[s].owner, TaskStreamExit(s))]
    /\ tpc' = [tpc EXCEPT ![s] = "remove"]
    /\ tinfo' = [tinfo EXCEPT ![s] = Ended(@)]
    /\ UNCHANGED <<hvars, pvars, next_stream_id, tasks, hdrain, tlines, aborted,
                   wvars>>

\* streams2.tasks.lock().await.remove(&stream_id), the task's last step
TaskRemove(s) ==
    /\ tpc[s] = "remove"
    /\ ~TableLocked(tinfo[s].owner)
    /\ tasks' = [tasks EXCEPT ![tinfo[s].owner] = @ \ {s}]
    /\ tpc' = [tpc EXCEPT ![s] = "done"]
    /\ UNCHANGED <<hvars, pvars, next_stream_id, hdrain, tinfo, tlines, aborted,
                   outbox, wvars>>

\* the abort takes effect: the task is dropped at the await it is parked on
TaskKill(s) ==
    /\ Live(s)
    /\ aborted[s]
    /\ tpc' = [tpc EXCEPT ![s] = "killed"]
    /\ tinfo' = [tinfo EXCEPT ![s] = Ended(@)]
    /\ UNCHANGED <<hvars, pvars, next_stream_id, tasks, hdrain, tlines, aborted,
                   outbox, wvars>>

(* ------------------------------ ssh.cancel ----------------------------- *)

\* "ssh.cancel": decode, lock the table, remove the id, abort the handle
ReadCancel(c) ==
    /\ CanRead(c)
    /\ Admitted(c, "ssh.cancel")
    /\ \E t \in {0} \cup StreamIds :
          LET r == [NewReq("ssh.cancel") EXCEPT !.sid = t]
          IN  IF t = 0
              THEN /\ hreq' = [hreq EXCEPT ![c] = Finished(r)]
                   /\ UNCHANGED <<hpc, tasks, aborted>>
              ELSE IF t \in tasks[c]
              THEN /\ hreq' = [hreq EXCEPT ![c] = [r EXCEPT !.first = "found"]]
                   /\ tasks' = [tasks EXCEPT ![c] = @ \ {t}]
                   /\ aborted' = [aborted EXCEPT ![t] = TRUE]
                   /\ hpc' = [hpc EXCEPT ![c] = "cancel_emit"]
              ELSE /\ hreq' = [hreq EXCEPT ![c] = r]
                   /\ hpc' = [hpc EXCEPT ![c] = "cancel_respond"]
                   /\ UNCHANGED <<tasks, aborted>>
    /\ nreq' = nreq + 1
    /\ UNCHANGED <<authed, limit, xvars, pvars, next_stream_id, hdrain, tpc, tinfo, tlines,
                   outbox, wvars>>

\* a cancel that sends no event of its own
CancelEmitNothing(c) ==
    /\ hpc[c] = "cancel_emit"
    /\ hpc' = [hpc EXCEPT ![c] = "cancel_respond"]
    /\ UNCHANGED <<authed, limit, xvars, hreq, nreq, pvars, svars, outbox, wvars>>

\* the synthetic stream_exit of ssh.cancel
CancelEmit(c) ==
    /\ hpc[c] = "cancel_emit"
    /\ outbox' = [outbox EXCEPT
          ![c] = SendJson(@, c, StreamExit(hreq[c].sid, FALSE, "cancelled"))]
    /\ hpc' = [hpc EXCEPT ![c] = "cancel_respond"]
    /\ UNCHANGED <<authed, limit, xvars, hreq, nreq, pvars, svars, wvars>>

\* send_response_ok(id, {"cancelled": true})
CancelRespond(c) ==
    /\ hpc[c] = "cancel_respond"
    /\ outbox' = [outbox EXCEPT
          ![c] = send_response_ok(@, c, hreq[c].id, "cancelled", 0)]
    /\ hreq' = [hreq EXCEPT ![c] = Finished(@)]
    /\ hpc' = [hpc EXCEPT ![c] = "read"]
    /\ UNCHANGED <<authed, limit, xvars, nreq, pvars, svars, wvars>>

(* ----------------------------- ssh.reset_all --------------------------- *)

\* "ssh.reset_all": params never fail (unwrap_or); lock the table, take
\* g.len(), start g.drain()
ReadResetAll(c) ==
    /\ CanRead(c)
    /\ Admitted(c, "ssh.reset_all")
    /\ \E reason \in {"reset", "user_reset"} :
          hreq' = [hreq EXCEPT ![c] =
              [NewReq("ssh.reset_all") EXCEPT !.first = reason,
                                             !.cancelled = Cardinality(tasks[c]),
                                             !.pool0 = Cardinality(pool)]]
    /\ hdrain' = [hdrain EXCEPT ![c] = tasks[c]]
    /\ tasks' = [tasks EXCEPT ![c] = {}]
    /\ hpc' = [hpc EXCEPT ![c] = "reset_emit"]
    /\ nreq' = nreq + 1
    /\ UNCHANGED <<authed, limit, xvars, pvars, next_stream_id, tvars, outbox, wvars>>

\* one turn of `for (stream_id, handle) in g.drain()`, up to the await of
\* its send: the entry is taken and handle.abort() is called
ResetAbort(c) ==
    /\ hpc[c] = "reset_emit"
    /\ \E s \in hdrain[c] :
          /\ aborted' = [aborted EXCEPT ![s] = TRUE]
          /\ hdrain' = [hdrain EXCEPT ![c] = @ \ {s}]
          /\ hreq' = [hreq EXCEPT ![c].sid = s]
    /\ hpc' = [hpc EXCEPT ![c] = "reset_send"]
    /\ UNCHANGED <<authed, limit, xvars, nreq, pvars, next_stream_id, tasks,
                   tpc, tinfo, tlines, outbox, wvars>>

\* the rest of the turn: outbox.send_json(StreamExit {-1, reason}).await
ResetEmit(c) ==
    /\ hpc[c] = "reset_send"
    /\ outbox' = [outbox EXCEPT
          ![c] = SendJson(@, c, StreamExit(hreq[c].sid, FALSE, hreq[c].first))]
    /\ hpc' = [hpc EXCEPT ![c] = "reset_emit"]
    /\ UNCHANGED <<authed, limit, xvars, hreq, nreq, pvars, svars, wvars>>

\* state.pool.clear_all()
ResetClear(c) ==
    /\ hpc[c] = "reset_emit"
    /\ hdrain[c] = {}
    /\ hreq' = [hreq EXCEPT ![c].cleared = Cardinality(pool)]
    /\ pool' = {}
    /\ hpc' = [hpc EXCEPT ![c] = "reset_respond"]
    /\ UNCHANGED <<authed, limit, xvars, nreq, nextSess, svars, outbox, wvars>>

\* send_response_ok(id, SshResetAllResult {..}); `g` is dropped after it
ResetRespond(c) ==
    /\ hpc[c] = "reset_respond"
    /\ outbox' = [outbox EXCEPT
          ![c] = SendJson(@, c, ResponseEnvelope(hreq[c].id, TRUE, "reset_all",
                                                hreq[c].cancelled, hreq[c].cleared))]
    /\ hreq' = [hreq EXCEPT ![c] = Finished(@)]
    /\ hpc' = [hpc EXCEPT ![c] = "read"]
    /\ UNCHANGED <<authed, limit, xvars, nreq, pvars, svars, wvars>>

(* ---------------------- handle_connection: the end --------------------- *)

\* lines.next_line() gives None: the loop ends, the sweep locks the table
ClientEof(c) ==
    /\ hpc[c] = "read"
    /\ hpc' = [hpc EXCEPT ![c] = "sweep"]
    /\ hdrain' = [hdrain EXCEPT ![c] = tasks[c]]
    /\ tasks' = [tasks EXCEPT ![c] = {}]
    /\ UNCHANGED <<authed, limit, xvars, hreq, nreq, pvars, next_stream_id, tvars,
                   outbox, wvars>>

\* the socket fails: lines.next_line().await? gives Err and
\* handle_connection returns at once
ReadError(c) ==
    /\ hpc[c] = "read"
    /\ hpc' = [hpc EXCEPT ![c] = "failed"]
    /\ UNCHANGED <<authed, limit, xvars, hreq, nreq, pvars, svars, outbox, wvars>>

\* one turn of the closing `for (stream_id, handle) in g.drain()`, up to
\* the await of its send: the entry is taken and handle.abort() is called
SweepAbort(c) ==
    /\ hpc[c] = "sweep"
    /\ \E s \in hdrain[c] :
          /\ aborted' = [aborted EXCEPT ![s] = TRUE]
          /\ hdrain' = [hdrain EXCEPT ![c] = @ \ {s}]
          /\ hreq' = [hreq EXCEPT ![c].sid = s]
    /\ hpc' = [hpc EXCEPT ![c] = "sweep_send"]
    /\ UNCHANGED <<authed, limit, xvars, nreq, pvars, next_stream_id, tasks,
                   tpc, tinfo, tlines, outbox, wvars>>

\* the rest of the turn: send_json(StreamExit {-1, "connection closed"})
SweepEmit(c) ==
    /\ hpc[c] = "sweep_send"
    /\ outbox' = [outbox EXCEPT
          ![c] = SendJson(@, c, StreamExit(hreq[c].sid, FALSE,
                                           "connection closed"))]
    /\ hpc' = [hpc EXCEPT ![c] = "sweep"]
    /\ UNCHANGED <<authed, limit, xvars, hreq, nreq, pvars, svars, wvars>>

\* writer_task.abort(); Ok(())
SweepDone(c) ==
    /\ hpc[c] = "sweep"
    /\ hdrain[c] = {}
    /\ wst' = [wst EXCEPT ![c] = IF @ = "run" THEN "aborting" ELSE @]
    /\ hpc' = [hpc EXCEPT ![c] = "closed"]
    /\ UNCHANGED <<authed, limit, xvars, hreq, nreq, pvars, svars, outbox, written,
                   wpart>>

(* ------------------------------ writer_task ---------------------------- *)

\* rx.recv() gives a line, or the task is woken in a write of it: what is
\* left of write_all(line), write_all("\n") and flush completes
WriterWrite(c) ==
    /\ wst[c] \in {"run", "aborting"}
    /\ written[c] < Len(outbox[c])
    /\ written' = [written EXCEPT ![c] = @ + 1]
    /\ wpart' = [wpart EXCEPT ![c] = "none"]
    /\ UNCHANGED <<hvars, pvars, svars, outbox, wst>>

\* write_all(line) or write_all("\n") returns Pending, the socket taking no
\* more for now: a prefix of the line ("part"), or the line without its
\* newline ("line"), is on the socket and the task is parked in the write
WriterStall(c) ==
    /\ wst[c] \in {"run", "aborting"}
    /\ written[c] < Len(outbox[c])
    /\ \E w \in {"part", "line"} :
          /\ wpart[c] = "none" \/ (wpart[c] = "part" /\ w = "line")
          /\ wpart' = [wpart EXCEPT ![c] = w]
    /\ UNCHANGED <<hvars, pvars, svars, outbox, written, wst>>

\* a write on the socket fails: `break`, the task ends and drops rx
WriterFail(c) ==
    /\ wst[c] \in {"run", "aborting"}
    /\ written[c] < Len(outbox[c])
    /\ wst' = [wst EXCEPT ![c] = "failed"]
    /\ UNCHANGED <<hvars, pvars, svars, outbox, written, wpart>>

\* rx.recv() gives None: the queue is drained and every sender is dropped,
\* the handler's because handle_connection returned, the stream tasks'
\* because they ended
WriterEnd(c) ==
    /\ wst[c] = "run"
    /\ hpc[c] \in {"closed", "failed"}
    /\ \A s \in StreamIds :
          tinfo[s].owner = c => tpc[s] \in {"none", "done", "killed"}
    /\ written[c] = Len(outbox[c])
    /\ wst' = [wst EXCEPT ![c] = "ended"]
    /\ UNCHANGED <<hvars, pvars, svars, outbox, written, wpart>>

\* the abort of the writer task takes effect
WriterKill(c) ==
    /\ wst[c] = "aborting"
    /\ wst' = [wst EXCEPT ![c] = "aborted"]
    /\ UNCHANGED <<hvars, pvars, svars, outbox, written, wpart>>

(* ------------------------------- Next ---------------------------------- *)

Next ==
    \/ \E c \in Conns :
          \/ ReadMalformed(c) \/ ReadInvalidUtf8(c)
          \/ ReadUnauthorized(c) \/ ReadHello(c)
          \/ ReadUnknown(c) \/ ReadKeyOp(c)
          \/ ReadInstall(c) \/ InstallConnect(c) \/ InstallExec(c)
          \/ ReadExec(c) \/ ExecConnect(c) \/ ExecFirst(c) \/ ExecRetry(c)
          \/ ExecReconnect(c) \/ ExecSecond(c)
          \/ ReadWriteFile(c) \/ WriteConnect(c) \/ WriteRun(c)
          \/ WriteAnswer(c)
          \/ ReadStart(c) \/ StartConnect(c) \/ StartSpawn(c)
          \/ StartInsert(c) \/ StartRespond(c)
          \/ ReadCancel(c) \/ CancelEmit(c) \/ CancelRespond(c)
          \/ ReadResetAll(c) \/ ResetAbort(c) \/ ResetEmit(c)
          \/ ResetClear(c) \/ ResetRespond(c)
          \/ ClientEof(c) \/ ReadError(c) \/ SweepAbort(c) \/ SweepEmit(c)
          \/ SweepDone(c)
          \/ WriterWrite(c) \/ WriterStall(c) \/ WriterFail(c)
          \/ WriterKill(c) \/ WriterEnd(c)
    \/ \E s \in StreamIds :
          \/ TaskLine(s) \/ TaskResolve(s) \/ TaskEvict(s) \/ TaskExit(s)
          \/ TaskRemove(s) \/ TaskKill(s)

Spec == Init /\ [][Next]_vars

\* clients that send hello, ssh.exec and ssh.write_file, on sockets that
\* stay writable
NextPool ==
    \E c \in Conns :
       \/ ReadHello(c)
       \/ ReadExec(c) \/ ExecConnect(c) \/ ExecFirst(c) \/ ExecRetry(c)
       \/ ExecReconnect(c) \/ ExecSecond(c)
       \/ ReadWriteFile(c) \/ WriteConnect(c) \/ WriteRun(c)
       \/ WriteAnswer(c)
       \/ ClientEof(c) \/ SweepDone(c)

\* every method.  Within MaxReq frames no stream is registered yet when an
\* ssh.cancel or ssh.reset_all is served (hello and ssh.start come first),
\* so CancelEmit, ResetAbort and ResetEmit are not enabled and Next comes to
\* this
NextConn ==
    \/ \E c \in Conns :
          \/ ReadMalformed(c) \/ ReadInvalidUtf8(c)
          \/ ReadUnauthorized(c) \/ ReadHello(c)
          \/ ReadUnknown(c) \/ ReadKeyOp(c)
          \/ ReadInstall(c) \/ InstallConnect(c) \/ InstallExec(c)
          \/ ReadExec(c) \/ ExecConnect(c) \/ ExecFirst(c) \/ ExecRetry(c)
          \/ ExecReconnect(c) \/ ExecSecond(c)
          \/ ReadWriteFile(c) \/ WriteConnect(c) \/ WriteRun(c)
          \/ WriteAnswer(c)
          \/ ReadStart(c) \/ StartConnect(c) \/ StartSpawn(c)
          \/ StartInsert(c) \/ StartRespond(c)
          \/ ReadCancel(c) \/ CancelRespond(c)
          \/ ReadResetAll(c) \/ ResetClear(c) \/ ResetRespond(c)
          \/ ClientEof(c) \/ ReadError(c) \/ SweepAbort(c) \/ SweepEmit(c)
          \/ SweepDone(c)
          \/ WriterWrite(c) \/ WriterStall(c) \/ WriterFail(c)
          \/ WriterKill(c) \/ WriterEnd(c)
    \/ \E s \in StreamIds :
          \/ TaskLine(s) \/ TaskResolve(s) \/ TaskEvict(s) \/ TaskExit(s)
          \/ TaskRemove(s) \/ TaskKill(s)

SpecConn == InitWith(MaxReq) /\ [][NextConn]_vars

SpecPool == InitWith(MaxReqPool) /\ [][NextPool]_vars

\* clients that send hello, ssh.start, ssh.cancel and ssh.reset_all
NextStream ==
    \/ \E c \in 1..NumStreamConns :
          \/ ReadHello(c)
          \/ ReadStart(c) \/ StartConnect(c) \/ StartSpawn(c)
          \/ StartInsert(c) \/ StartRespond(c)
          \/ ReadCancel(c) \/ CancelEmit(c) \/ CancelRespond(c)
          \/ ReadResetAll(c) \/ ResetAbort(c) \/ ResetEmit(c)
          \/ ResetClear(c) \/ ResetRespond(c)
          \/ ClientEof(c) \/ SweepAbort(c) \/ SweepEmit(c) \/ SweepDone(c)
          \/ WriterFail(c)
    \/ \E s \in StreamIds :
          \/ TaskLine(s) \/ TaskResolve(s) \/ TaskEvict(s) \/ TaskExit(s)
          \/ TaskRemove(s) \/ TaskKill(s)

SpecStream == InitWith(MaxReqStream) /\ [][NextStream]_vars

\* clients that start streams on every connection and let them run to
\* their end
NextStart ==
    \/ \E c \in Conns :
          \/ ReadHello(c)
          \/ ReadStart(c) \/ StartConnect(c) \/ StartSpawn(c)
          \/ StartInsert(c) \/ StartRespond(c)
    \/ \E s \in StreamIds :
          \/ TaskResolve(s) \/ TaskEvict(s) \/ TaskExit(s) \/ TaskRemove(s)

SpecStart == InitWith(MaxReqStart) /\ [][NextStart]_vars

\* clients that start streams whose remote commands keep running, on every
\* connection, while the first NumStreamConns of them also send ssh.reset_all
NextReset ==
    \/ \E c \in Conns :
          \/ ReadHello(c)
          \/ ReadStart(c) \/ StartConnect(c) \/ StartSpawn(c)
          \/ StartInsert(c) \/ StartRespond(c)
    \/ \E c \in 1..NumStreamConns :
          \/ ReadResetAll(c) \/ ResetAbort(c) \/ ResetEmit(c)
          \/ ResetClear(c) \/ ResetRespond(c)
    \/ \E s \in StreamIds : TaskKill(s)

SpecReset == InitWith(MaxReqReset) /\ [][NextReset]_vars

(* --------------------------- line framing ------------------------------- *)

\* the bytes of a remote command's output that the framing tells apart: a
\* letter, carriage return, newline, space, and the two bytes C3 A9 of the
\* character e-acute
Bytes == {"a", "CR", "LF", "SP", "C3", "A9"}

\* what char::is_whitespace holds of the characters
Whitespace == {"CR", "LF", "SP"}

Outputs == UNION {[1..n -> Bytes] : n \in 0..MaxOut}

\* the chunks of s from position i on, a chunk ending after each position
\* of cuts: what the channel of execute_io delivers to stdout_rx.recv()
RECURSIVE ChunksFrom(_, _, _)
ChunksFrom(s, cuts, i) ==
    IF i > Len(s) THEN <<>>
    ELSE LET j == CHOOSE j \in i..Len(s) :
                     /\ j \in cuts \/ j = Len(s)
                     /\ \A k \in i..(j - 1) : k \notin cuts
         IN  <<SubSeq(s, i, j)>> \o ChunksFrom(s, cuts, j + 1)

Chunkings(s) == {ChunksFrom(s, cuts, 1) : cuts \in SUBSET (1..(Len(s) - 1))}

\* String::from_utf8_lossy: the characters of the bytes b, U+FFFD for a
\* lead byte without its continuation and for a continuation byte alone
RECURSIVE from_utf8_lossy(_)
from_utf8_lossy(b) ==
    IF b = <<>> THEN <<>>
    ELSE IF b[1] = "C3" /\ Len(b) >= 2 /\ b[2] = "A9"
    THEN <<"e-acute">> \o from_utf8_lossy(SubSeq(b, 3, Len(b)))
    ELSE IF b[1] \in {"C3", "A9"}
    THEN <<"U+FFFD">> \o from_utf8_lossy(Tail(b))
    ELSE <<b[1]>> \o from_utf8_lossy(Tail(b))

\* str::find of one character: the first index holding it, 0 for None
find(s, ch) ==
    IF \E i \in 1..Len(s) : s[i] = ch
    THEN CHOOSE i \in 1..Len(s) : s[i] = ch /\ \A k \in 1..(i - 1) : s[k] # ch
    ELSE 0

\* str::trim_end_matches of one character: every trailing occurrence goes
RECURSIVE trim_end_matches(_, _)
trim_end_matches(s, ch) ==
    IF s # <<>> /\ s[Len(s)] = ch
    THEN trim_end_matches(SubSeq(s, 1, Len(s) - 1), ch)
    ELSE s

RECURSIVE trim_end(_)
trim_end(s) ==
    IF s # <<>> /\ s[Len(s)] \in Whitespace
    THEN trim_end(SubSeq(s, 1, Len(s) - 1))
    ELSE s

RECURSIVE trim_start(_)
trim_start(s) ==
    IF s # <<>> /\ s[1] \in Whitespace
    THEN trim_start(Tail(s))
    ELSE s

\* str::trim: leading and trailing whitespace goes
trim(s) == trim_start(trim_end(s))

\* a stream task starts to follow a command that writes fout in the chunks
\* fchunks
InitFraming ==
    /\ fout \in Outputs
    /\ fchunks \in Chunkings(fout)
    /\ out_pending = <<>> /\ flines = <<>> /\ fst = "loop"

FramingRest ==
    <<authed, hpc, hreq, nreq, limit, pvars, svars, outbox, wvars, bvars, dvars>>

\* Some(bytes) = stdout_rx.recv(), in the select loop or in the drain after
\* it: the chunk is converted by itself and appended to the buffer
RecvChunk ==
    /\ fst = "loop" /\ fchunks # <<>>
    /\ find(out_pending, "LF") = 0
    /\ out_pending' = out_pending \o from_utf8_lossy(Head(fchunks))
    /\ fchunks' = Tail(fchunks)
    /\ UNCHANGED <<fout, flines, fst>>
    /\ UNCHANGED FramingRest

\* one turn of `while let Some(idx) = out_pending.find('\n')`: the line is
\* taken off the buffer and sent, the task waiting in send_json
SendLine ==
    /\ fst = "loop"
    /\ LET idx == find(out_pending, "LF")
       IN  /\ idx # 0
           /\ flines' = Append(flines,
                  trim_end_matches(SubSeq(out_pending, 1, idx - 1), "CR"))
           /\ out_pending' = SubSeq(out_pending, idx + 1, Len(out_pending))
    /\ UNCHANGED <<fout, fchunks, fst>>
    /\ UNCHANGED FramingRest

\* the exec has resolved and stdout_rx is drained: the trimmed rest of the
\* buffer is sent as the tail, unless it is empty
EmitTail ==
    /\ fst = "loop" /\ fchunks = <<>>
    /\ find(out_pending, "LF") = 0
    /\ LET pending == trim(out_pending)
       IN  flines' = IF pending # <<>> THEN Append(flines, pending)
                     ELSE flines
    /\ out_pending' = <<>>
    /\ fst' = "done"
    /\ UNCHANGED <<fout, fchunks>>
    /\ UNCHANGED FramingRest

\* handle.abort() takes effect while the task waits in recv or in a
\* send_json: the task is dropped with what it has in its buffer
AbortFraming ==
    /\ fst = "loop"
    /\ fst' = "aborted"
    /\ UNCHANGED <<fout, fchunks, out_pending, flines>>
    /\ UNCHANGED FramingRest

NextFraming == RecvChunk \/ SendLine \/ EmitTail \/ AbortFraming

\* the rest of the daemon stands still meanwhile
InitFramingOnly == InitProgram(0) /\ InitFraming /\ Booted /\ NoWriteFile

SpecFraming == InitFramingOnly /\ [][NextFraming]_vars

(* ----------------------------- bootstrap -------------------------------- *)

\* the daemon is started: any --port, and at the two paths whatever an
\* earlier run has left there
InitBoot ==
    /\ bpc = "start" /\ port \in {0} \cup Ports
    /\ actual_port = 0 /\ token = "" /\ server_cfg = "" /\ accepted = 0
    /\ tmp_path \in {NoFile, PartialFile}
                    \cup {StateFile(p, t) : p \in Ports, t \in Tokens}
    /\ state_file \in {NoFile} \cup {StateFile(p, t) : p \in Ports, t \in Tokens}

BootRest ==
    <<authed, hpc, hreq, nreq, limit, pvars, svars, outbox, wvars, fvars, dvars>>

\* TcpListener::bind and local_addr: the port asked for, or any when 0
Bind ==
    /\ bpc = "start"
    /\ \E p \in Ports :
          /\ port # 0 => p = port
          /\ actual_port' = p
    /\ bpc' = "bound"
    /\ UNCHANGED <<port, token, server_cfg, tmp_path, state_file, accepted>>
    /\ UNCHANGED BootRest

\* hex_token(32)
MintToken ==
    /\ bpc = "bound"
    /\ token' \in Tokens
    /\ bpc' = "minted"
    /\ UNCHANGED <<port, actual_port, server_cfg, tmp_path, state_file, accepted>>
    /\ UNCHANGED BootRest

\* fs::write(&tmp_path, json): the file is created or truncated
WriteTmpCreate ==
    /\ bpc = "minted"
    /\ tmp_path' = PartialFile
    /\ bpc' = "writing"
    /\ UNCHANGED <<port, actual_port, token, server_cfg, state_file, accepted>>
    /\ UNCHANGED BootRest

\* fs::write(&tmp_path, json): the record is written in full
WriteTmpAll ==
    /\ bpc = "writing"
    /\ tmp_path' = StateFile(actual_port, token)
    /\ bpc' = "written"
    /\ UNCHANGED <<port, actual_port, token, server_cfg, state_file, accepted>>
    /\ UNCHANGED BootRest

\* fs::rename(&tmp_path, path)
Rename ==
    /\ bpc = "written"
    /\ state_file' = tmp_path
    /\ tmp_path' = NoFile
    /\ bpc' = "published"
    /\ UNCHANGED <<port, actual_port, token, server_cfg, accepted>>
    /\ UNCHANGED BootRest

\* ServerConfig { token, protocol } and the entry into the accept loop
Configure ==
    /\ bpc = "published"
    /\ server_cfg' = token
    /\ bpc' = "accept"
    /\ UNCHANGED <<port, actual_port, token, tmp_path, state_file, accepted>>
    /\ UNCHANGED BootRest

\* bind, create_dir_all, fs::write or fs::rename gives an error and the `?`
\* returns it out of main
BootFail ==
    /\ bpc \in {"start", "minted", "writing", "written"}
    /\ bpc' = "exit"
    /\ UNCHANGED <<port, actual_port, token, server_cfg, tmp_path, state_file,
                   accepted>>
    /\ UNCHANGED BootRest

\* the handlers may be given connections
Listening == bpc = "accept"

\* listener.accept() gives a connection and its handler is spawned, or it
\* gives an error and the `?` returns it out of main: the process ends,
\* with the handlers it was running
Accept ==
    /\ Listening
    /\ \/ /\ accepted < MaxAccept
          /\ accepted' = accepted + 1
          /\ UNCHANGED bpc
       \/ /\ bpc' = "exit"
          /\ UNCHANGED accepted
    /\ UNCHANGED <<port, actual_port, token, server_cfg, tmp_path, state_file>>
    /\ UNCHANGED BootRest


(* ------------------- ssh_write_file: exec and drain --------------------- *)

\* tokio::sync::mpsc::channel::<Vec<u8>>(1) for stdout and for stderr
ChannelCapacity == 1

\* what execute_io returns: the exit code of the command (0 or not) or an
\* async_ssh2_tokio::Error
ExecStatuses == {"ok", "nonzero"} \cup SshErrors

\* the write task has returned its status
Returned == write_task \in ExecStatuses

\* ssh_write_file is called for a target; until execute_io returns, the
\* output of the remote command comes in some chunks, each on stdout or on
\* stderr
InitWriteFile ==
    /\ remote_out \in UNION {[1..n -> {"stdout", "stderr"}] : n \in 0..MaxChunks}
    /\ pool_key \in Keys
    /\ wf_pc = "get_client" /\ write_task = "none" /\ drain = "none"
    /\ stdout_rx = 0 /\ stderr_rx = 0

WriteFileOthers ==
    <<authed, hpc, hreq, nreq, limit, svars, outbox, wvars, fvars, bvars,
      pool_key>>

WriteFileRest == <<WriteFileOthers, pvars>>

\* ssh_get_client(..).await?: no session is pooled for the key, so one is
\* connected and pooled, or the error is returned; then the channels are
\* made and the write task is spawned, running execute_io
WriteFileGetClient ==
    /\ wf_pc = "get_client"
    /\ \E ok \in BOOLEAN :
          IF ok
          THEN /\ pool' = PoolInsert(pool, pool_key, nextSess)
               /\ nextSess' = nextSess + 1
               /\ wf_pc' = "stdin"
               /\ write_task' = "run"
          ELSE /\ wf_pc' = "connect_failed"
               /\ UNCHANGED <<pvars, write_task>>
    /\ UNCHANGED <<remote_out, stdout_rx, stderr_rx, drain>>
    /\ UNCHANGED WriteFileOthers

\* stdin_tx.send(contents): the channel of capacity 2 takes it, unless
\* execute_io has returned and dropped stdin_rx: then the send fails and
\* the `?` returns Err("stdin send failed")
SendContents ==
    /\ wf_pc = "stdin"
    /\ wf_pc' = IF write_task = "run" THEN "stdin_eof" ELSE "stdin_failed"
    /\ UNCHANGED <<write_task, remote_out, stdout_rx, stderr_rx, drain>>
    /\ UNCHANGED WriteFileRest

\* stdin_tx.send(Vec::new()), which fails likewise; after it the drain
\* task is spawned
SpawnDrain ==
    /\ wf_pc = "stdin_eof"
    /\ IF write_task = "run"
       THEN /\ wf_pc' = "wait"
            /\ drain' = "stdout"
       ELSE /\ wf_pc' = "stdin_failed"
            /\ UNCHANGED drain
    /\ UNCHANGED <<write_task, remote_out, stdout_rx, stderr_rx>>
    /\ UNCHANGED WriteFileRest

\* execute_io passes the next chunk of the command to its channel:
\* stdout_tx.send(data).await or stderr_tx.send(data).await, which completes
\* only when the channel has room
ExecForward ==
    /\ write_task = "run" /\ remote_out # <<>>
    /\ IF Head(remote_out) = "stdout"
       THEN /\ stdout_rx < ChannelCapacity
            /\ stdout_rx' = stdout_rx + 1
            /\ UNCHANGED stderr_rx
       ELSE /\ stderr_rx < ChannelCapacity
            /\ stderr_rx' = stderr_rx + 1
            /\ UNCHANGED stdout_rx
    /\ remote_out' = Tail(remote_out)
    /\ UNCHANGED <<wf_pc, write_task, drain>>
    /\ UNCHANGED WriteFileRest

\* the command exits or the session fails: execute_io returns the exit
\* code or the error, and both senders are dropped
ExecFinish ==
    /\ write_task = "run" /\ remote_out = <<>>
    /\ write_task' \in ExecStatuses
    /\ UNCHANGED <<wf_pc, remote_out, stdout_rx, stderr_rx, drain>>
    /\ UNCHANGED WriteFileRest

\* while stdout_rx.recv().await.is_some() {}: a chunk is taken, or the
\* channel is closed and empty and the loop ends
DrainStdout ==
    /\ drain = "stdout"
    /\ \/ /\ stdout_rx > 0
          /\ stdout_rx' = stdout_rx - 1
          /\ UNCHANGED drain
       \/ /\ stdout_rx = 0 /\ Returned
          /\ drain' = "stderr"
          /\ UNCHANGED stdout_rx
    /\ UNCHANGED <<wf_pc, write_task, remote_out, stderr_rx>>
    /\ UNCHANGED WriteFileRest

\* while stderr_rx.recv().await.is_some() {}
DrainStderr ==
    /\ drain = "stderr"
    /\ \/ /\ stderr_rx > 0
          /\ stderr_rx' = stderr_rx - 1
          /\ UNCHANGED drain
       \/ /\ stderr_rx = 0 /\ Returned
          /\ drain' = "done"
          /\ UNCHANGED stderr_rx
    /\ UNCHANGED <<wf_pc, write_task, remote_out, stdout_rx>>
    /\ UNCHANGED WriteFileRest

\* timeout(command_timeout, write_task) gives the status of the task
JoinWriteTask ==
    /\ wf_pc = "wait" /\ Returned
    /\ wf_pc' = "join"
    /\ UNCHANGED <<write_task, remote_out, stdout_rx, stderr_rx, drain>>
    /\ UNCHANGED WriteFileRest

\* command_timeout elapses first: Err("SSH command timeout"), the two tasks
\* are left to themselves
CommandTimeout ==
    /\ wf_pc = "wait" /\ write_task = "run"
    /\ wf_pc' = "timeout"
    /\ UNCHANGED <<write_task, remote_out, stdout_rx, stderr_rx, drain>>
    /\ UNCHANGED WriteFileRest

\* let _ = drain.await; then the match on the status: an error whose text
\* contains "Broken pipe" or "Connection reset" removes the session of the
\* key from the pool (state.pool.remove(&pool_key)) before it is returned
JoinDrain ==
    /\ wf_pc = "join" /\ drain = "done"
    /\ pool' = IF WriteEvicts(write_task) THEN PoolRemove(pool, pool_key)
                                           ELSE pool
    /\ wf_pc' = IF write_task = "ok" THEN "done" ELSE "failed"
    /\ UNCHANGED <<nextSess, write_task, remote_out, stdout_rx, stderr_rx,
                   drain>>
    /\ UNCHANGED WriteFileOthers

NextWriteFile ==
    \/ WriteFileGetClient
    \/ SendContents \/ SpawnDrain \/ ExecForward \/ ExecFinish
    \/ DrainStdout \/ DrainStderr
    \/ JoinWriteTask \/ CommandTimeout \/ JoinDrain

\* the rest of the daemon stands still meanwhile
InitWriteFileOnly == InitProgram(0) /\ FramingIdle /\ Booted /\ InitWriteFile

SpecWriteFile == InitWriteFileOnly /\ [][NextWriteFile]_vars

NextBoot ==
    \/ Bind \/ MintToken \/ WriteTmpCreate \/ WriteTmpAll \/ Rename
    \/ Configure \/ BootFail \/ Accept

\* no connection exists yet
InitBootOnly == InitProgram(0) /\ FramingIdle /\ InitBoot /\ NoWriteFile

SpecBoot == InitBootOnly /\ [][NextBoot]_vars

(* ------------------------- reading the outbox --------------------------- *)

\* positions of connection c's outbox that hold a frame satisfying P
Where(c, P(_)) == {i \in DOMAIN outbox[c] : P(outbox[c][i])}

IsExitOf(s, f) == f.type = "stream_exit" /\ f.n = s
IsEventOf(s, f) == f.type \in {"stream_line", "stream_exit"} /\ f.n = s
IsResponseTo(id, f) == f.type = "response" /\ f.id = id
IsStartResponse(s, f) == f.type = "response" /\ f.body = "stream_id" /\ f.n = s

\* stream s was started by connection c
StartedBy(c, s) == tpc[s] # "none" /\ tinfo[s].owner = c

(* -------------------------------- C1 ------------------------------------ *)

\* C1: every stream started by ssh.start gets exactly one stream_exit on the
\* outbound queue of its connection: never two, and not zero once the
\* handler has finished with its writer still draining the queue
C1_ExactlyOneStreamExit ==
    \A c \in Conns, s \in StreamIds :
       StartedBy(c, s) =>
          /\ Cardinality(Where(c, LAMBDA f : IsExitOf(s, f))) <= 1
          /\ (hpc[c] = "closed" /\ wst[c] # "failed")
                => Cardinality(Where(c, LAMBDA f : IsExitOf(s, f))) = 1

(* -------------------------------- C2 ------------------------------------ *)

\* C2: the response {stream_id} of ssh.start is enqueued before any
\* stream_line or stream_exit of that stream
C2_ResponseBeforeEvents ==
    \A c \in Conns, s \in StreamIds :
       \A i \in Where(c, LAMBDA f : IsEventOf(s, f)) :
          \E j \in Where(c, LAMBDA f : IsStartResponse(s, f)) : j < i

(* -------------------------------- C3 ------------------------------------ *)

\* C3: on an authenticated connection every request handle_request has
\* served has exactly one response carrying its id in the outbound queue
\* (the queue still being open), and no id ever has two
C3_OneResponsePerRequest ==
    \A c \in Conns :
       /\ \A id \in 1..nreq :
             Cardinality(Where(c, LAMBDA f : IsResponseTo(id, f))) <= 1
       /\ (authed[c] /\ hpc[c] = "read" /\ hreq[c].method # "" /\ ChannelOpen(c))
             => Cardinality(Where(c, LAMBDA f : IsResponseTo(hreq[c].id, f))) = 1

(* -------------------------------- C4 ------------------------------------ *)

\* C4: when the handshake fails on a connection that never authenticated,
\* the ok:false response the handler enqueued has been written to the socket
\* by the time the abort has ended the writer task
C4_HandshakeFailureAnswered ==
    \A c \in Conns :
       (~authed[c] /\ hpc[c] = "closed" /\ wst[c] = "aborted"
          /\ Len(outbox[c]) > 0)
       => /\ Len(outbox[c]) = 1
          /\ outbox[c][1].type = "response" /\ ~outbox[c][1].ok
          /\ written[c] = 1

(* -------------------------------- C5 ------------------------------------ *)

\* C5: a hello answered with an error response (wrong protocol or token)
\* closes the connection, be it the first request or a later one on an
\* authenticated connection
C5_HelloMismatchCloses ==
    \A c \in Conns :
       (/\ hreq[c].method = "hello"
        /\ \E i \in Where(c, LAMBDA f : IsResponseTo(hreq[c].id, f)) :
              ~outbox[c][i].ok)
       => hpc[c] \in {"sweep", "sweep_send", "closed"}

(* -------------------------------- C6 ------------------------------------ *)

\* C6: until a hello has succeeded on a connection, handle_request is given
\* no other method there: the handler is in no ssh.exec, ssh.write_file,
\* ssh.start, ssh.cancel or ssh.reset_all, has served no key operation, and
\* owns no stream
C6_OnlyHelloBeforeAuth ==
    \A c \in Conns :
       ~authed[c] =>
          /\ hreq[c].method \in {"", "hello"}
          /\ hpc[c] \in {"read", "sweep", "closed", "failed"}
          /\ tasks[c] = {}
          /\ \A s \in StreamIds : ~StartedBy(c, s)

\* a request other than hello was refused on an unauthenticated connection,
\* which then closed
C6_Witness ==
    \E c \in Conns :
       /\ ~authed[c] /\ hpc[c] = "closed"
       /\ hreq[c].id # 0 /\ hreq[c].method = ""
       /\ Where(c, LAMBDA f : IsResponseTo(hreq[c].id, f) /\ f.body = "unauthorized") # {}

(* -------------------------------- C7 ------------------------------------ *)

\* C7: the pool holds at most one session per PoolKey, and the last insert
\* wins: handlers racing on a key may each hold a session of their own, but
\* none holds one newer than the session pooled for the key, and an insert
\* leaves exactly the inserted session in the key's entry
C7_OneSessionPerKey ==
    /\ [](\A k \in Keys :
            /\ Cardinality({e \in pool : e.key = k}) <= 1
            /\ \A c \in Conns :
                  (PoolHas(pool, k) /\ hreq[c].key = k)
                     => hreq[c].sess <= PoolGet(pool, k))
    /\ [][nextSess' # nextSess =>
            \E k \in Keys :
               /\ {e \in pool' : e.key = k} = {[key |-> k, sess |-> nextSess]}
               /\ {e \in pool' : e.key # k} = {e \in pool : e.key # k}]_vars

\* two handlers found the key absent, each connected and inserted: they hold
\* different sessions of one key, and the pool holds the later one
C7_Witness ==
    \E c1, c2 \in Conns :
       /\ hpc[c1] = "exec_first" /\ hpc[c2] = "exec_first"
       /\ hreq[c1].key = hreq[c2].key
       /\ hreq[c1].sess < hreq[c2].sess
       /\ pool = {[key |-> hreq[c2].key, sess |-> hreq[c2].sess]}

(* -------------------------------- C8 ------------------------------------ *)

\* the errors the specification calls transient
TransientErrors ==
    {"SshError", "SshErrorBrokenPipeText", "SendError", "ChannelSendError",
     "IoBrokenPipe", "IoBrokenPipeNoCode", "IoConnectionReset",
     "IoConnectionAborted", "IoNotConnected", "IoUnexpectedEof", "IoTimedOut"}

\* C8: ssh.exec calls client.execute at most twice.  A first attempt that
\* fails with a transient error evicts the key, answers nothing yet and goes
\* on to one retry; any other first result is answered at once with the
\* pool left as it is; the retry's result is answered whatever it is
C8_RetryOnceOnTransient ==
    /\ [](\A c \in Conns :
            /\ hreq[c].nexec <= 2
            /\ hpc[c] \in {"exec_first", "exec_retry", "exec_reconnect"}
                  => hreq[c].nexec = 1
            /\ hpc[c] = "exec_second" => hreq[c].nexec = 2
            /\ hpc[c] \in {"exec_retry", "exec_reconnect", "exec_second"}
                  => hreq[c].first \in TransientErrors)
    /\ [][\A c \in Conns, o \in ExecOutcomes :
            ExecFirstWith(c, o) =>
               IF o \in TransientErrors
               THEN /\ hpc'[c] = "exec_retry"
                    /\ ~PoolHas(pool', hreq[c].key)
                    /\ outbox' = outbox
               ELSE /\ hpc'[c] = "read"
                    /\ pool' = pool
                    /\ Len(outbox'[c]) = Len(outbox[c]) + 1
                    /\ IsResponseTo(hreq[c].id, outbox'[c][Len(outbox'[c])])]_vars
    /\ [][\A c \in Conns, o \in ExecOutcomes :
            ExecSecondWith(c, o) =>
               /\ hpc'[c] = "read"
               /\ pool' = pool
               /\ Len(outbox'[c]) = Len(outbox[c]) + 1
               /\ IsResponseTo(hreq[c].id, outbox'[c][Len(outbox'[c])])]_vars

\* a first attempt failed with a transient error and the second execute
\* is under way
C8_Witness ==
    \E c \in Conns :
       /\ hpc[c] = "exec_second"
       /\ hreq[c].nexec = 2
       /\ hreq[c].first = "SshError"

(* -------------------------------- C9 ------------------------------------ *)

\* C9: a first attempt that exceeds command_timeout is answered with the
\* error "SSH command timeout"; no second execute follows and the pool and
\* its sessions stay as they were
C9_TimeoutNoRetry ==
    [][\A c \in Conns :
          ExecFirstWith(c, "timeout") =>
             /\ hreq[c].nexec = 1
             /\ hpc'[c] = "read"
             /\ pool' = pool /\ nextSess' = nextSess
             /\ PoolGet(pool', hreq[c].key) = PoolGet(pool, hreq[c].key)
             /\ outbox'[c] = Append(outbox[c],
                   ResponseEnvelope(hreq[c].id, FALSE, "SSH command timeout", 0, 0))]_vars

\* an ssh.exec was answered "SSH command timeout" and the key it used is
\* still pooled
C9_Witness ==
    \E c \in Conns :
       /\ hpc[c] = "read" /\ hreq[c].method = "ssh.exec"
       /\ Len(outbox[c]) > 0
       /\ outbox[c][Len(outbox[c])] =
             ResponseEnvelope(hreq[c].id, FALSE, "SSH command timeout", 0, 0)
       /\ pool # {}

(* -------------------------------- C10 ----------------------------------- *)

IsCancelledExit(s, f) == f = StreamExit(s, FALSE, "cancelled")

\* C10: an ssh.cancel naming a stream registered on its connection removes
\* the entry and aborts the task, then enqueues one synthetic stream_exit
\* {-1, "cancelled"} for it, then the response {"cancelled": true}; no
\* stream ever gets two such events
C10_CancelRegistered ==
    /\ [](\A c \in Conns, s \in StreamIds :
            Cardinality(Where(c, LAMBDA f : IsCancelledExit(s, f))) <= 1)
    /\ [](\A c \in Conns :
            (hpc[c] = "cancel_respond" /\ hreq[c].first = "found")
            => /\ hreq[c].sid \notin tasks[c]
               /\ aborted[hreq[c].sid]
               /\ ChannelOpen(c) =>
                     Cardinality(Where(c,
                        LAMBDA f : IsCancelledExit(hreq[c].sid, f))) = 1)
    /\ [][\A c \in Conns :
            (/\ hpc[c] = "read" /\ nreq' # nreq
             /\ hreq'[c].id = nreq' /\ hreq'[c].method = "ssh.cancel"
             /\ hreq'[c].sid \in tasks[c])
            => /\ hpc'[c] = "cancel_emit"
               /\ tasks'[c] = tasks[c] \ {hreq'[c].sid}
               /\ aborted'[hreq'[c].sid]
               /\ outbox' = outbox]_vars
    /\ [][\A c \in Conns :
            (hpc[c] = "cancel_emit" /\ hpc'[c] # "cancel_emit")
            => /\ hpc'[c] = "cancel_respond"
               /\ ChannelOpen(c) =>
                     outbox'[c] = Append(outbox[c],
                        StreamExit(hreq[c].sid, FALSE, "cancelled"))]_vars
    /\ [][\A c \in Conns :
            (hpc[c] = "cancel_respond" /\ hpc'[c] # "cancel_respond")
            => /\ hpc'[c] = "read"
               /\ ChannelOpen(c) =>
                     outbox'[c] = Append(outbox[c],
                        ResponseEnvelope(hreq[c].id, TRUE, "cancelled", 0, 0))]_vars

\* an ssh.cancel has been answered, the synthetic exit of the stream it
\* cancelled standing before the response in the queue
C10_Witness ==
    \E c \in Conns, s \in StreamIds :
       /\ hpc[c] = "read" /\ hreq[c].method = "ssh.cancel"
       /\ Len(outbox[c]) > 1
       /\ outbox[c][Len(outbox[c])] =
             ResponseEnvelope(hreq[c].id, TRUE, "cancelled", 0, 0)
       /\ \E i \in Where(c, LAMBDA f : IsCancelledExit(s, f)) :
             i < Len(outbox[c])

(* -------------------------------- C11 ----------------------------------- *)

\* the stream's exit has been emitted: by its task, or by an earlier
\* ssh.cancel or ssh.reset_all (which abort it)
HasExited(s) == tpc[s] \in {"remove", "done"} \/ aborted[s]

\* the handler of c reads an ssh.cancel whose params name stream s
ServesCancel(c, s) ==
    /\ hpc[c] = "read" /\ nreq' = nreq + 1
    /\ hreq'[c].id = nreq' /\ hreq'[c].method = "ssh.cancel"
    /\ hreq'[c].sid = s

\* C11: an ssh.cancel naming a stream the connection never started, or one
\* that has already exited, emits nothing, leaves the stream table and the
\* pool as they are and goes on to the response; and no stream ever has
\* two synthetic "cancelled" exits
C11_CancelIdempotent ==
    /\ [](\A c \in Conns, s \in StreamIds :
            Cardinality(Where(c, LAMBDA f : IsCancelledExit(s, f))) <= 1)
    /\ [][\A c \in Conns, s \in StreamIds :
            (ServesCancel(c, s) /\ (~StartedBy(c, s) \/ HasExited(s)))
            => /\ hpc'[c] = "cancel_respond"
               /\ tasks' = tasks /\ pool' = pool /\ outbox' = outbox]_vars

(* -------------------------------- C12 ----------------------------------- *)

\* the streams of connection c that have not exited
LiveStreams(c) == {s \in StreamIds : StartedBy(c, s) /\ ~HasExited(s)}

\* C12: the cancelled_streams of an ssh.reset_all is the number of streams
\* of the calling connection that have not exited when the call starts, and
\* its cleared_connections is the size the pool had when the call started
C12_ResetAllCounts ==
    /\ [][\A c \in Conns :
            (/\ hpc[c] = "read" /\ nreq' = nreq + 1
             /\ hreq'[c].id = nreq' /\ hreq'[c].method = "ssh.reset_all")
            => hreq'[c].cancelled = Cardinality(LiveStreams(c))]_vars
    /\ [](\A c \in Conns :
            hpc[c] = "reset_respond" => hreq[c].cleared = hreq[c].pool0)
    /\ [][\A c \in Conns :
            (hpc[c] = "reset_respond" /\ hpc'[c] = "read" /\ ChannelOpen(c))
            => outbox'[c] = Append(outbox[c],
                  ResponseEnvelope(hreq[c].id, TRUE, "reset_all",
                                   hreq[c].cancelled, hreq[c].cleared))]_vars

(* -------------------------------- C13 ----------------------------------- *)

IsResetExit(s, f) ==
    f.type = "stream_exit" /\ f.n = s /\ f.body \in {"reset", "user_reset"}

\* the handler of c is inside ssh.reset_all, the guard of its table held
InResetAll(c) == hpc[c] \in {"reset_emit", "reset_send", "reset_respond"}

\* the part of C13 about the calling connection alone: ssh.reset_all takes
\* every entry of the table; each turn of its loop aborts one of them and
\* then enqueues its stream_exit {-1, reason}; only when none is left is
\* the pool flushed, which empties it; only then comes the response, and
\* the table is empty from the first step up to the response; no stream
\* gets two such events
C13_ResetAllSteps ==
    /\ [](\A c \in Conns, s \in StreamIds :
            Cardinality(Where(c, LAMBDA f : IsResetExit(s, f))) <= 1)
    /\ [](\A c \in Conns :
            InResetAll(c)
            => /\ tasks[c] = {}
               /\ hreq[c].first \in {"reset", "user_reset"}
               /\ hpc[c] = "reset_respond" => hdrain[c] = {})
    /\ [][\A c \in Conns :
            (hpc[c] = "read" /\ hpc'[c] = "reset_emit")
            => /\ hdrain'[c] = tasks[c]
               /\ outbox' = outbox /\ pool' = pool]_vars
    /\ [][\A c \in Conns :
            (hpc[c] = "reset_emit" /\ hdrain'[c] # hdrain[c])
            => \E s \in hdrain[c] :
                  /\ hdrain'[c] = hdrain[c] \ {s}
                  /\ aborted'[s]
                  /\ hpc'[c] = "reset_send" /\ hreq'[c].sid = s
                  /\ outbox' = outbox /\ pool' = pool]_vars
    /\ [][\A c \in Conns :
            (hpc[c] = "reset_send" /\ hpc'[c] # "reset_send")
            => /\ hpc'[c] = "reset_emit"
               /\ pool' = pool
               /\ ChannelOpen(c) =>
                     outbox'[c] = Append(outbox[c],
                        StreamExit(hreq[c].sid, FALSE, hreq[c].first))]_vars
    /\ [][\A c \in Conns :
            (hpc[c] = "reset_emit" /\ hpc'[c] \notin {"reset_emit", "reset_send"})
            => /\ hdrain[c] = {}
               /\ hpc'[c] = "reset_respond"
               /\ pool' = {} /\ outbox' = outbox]_vars
    /\ [][\A c \in Conns :
            (hpc[c] = "reset_respond" /\ hpc'[c] # "reset_respond")
            => /\ hpc'[c] = "read"
               /\ tasks'[c] = {}
               /\ ChannelOpen(c) =>
                     /\ Len(outbox'[c]) = Len(outbox[c]) + 1
                     /\ IsResponseTo(hreq[c].id, outbox'[c][Len(outbox'[c])])]_vars

\* C13: ssh.reset_all aborts every stream of the calling connection's table
\* and enqueues one stream_exit {-1, reason or "reset"} for each, all of
\* them before the pool is flushed and before the response; when the
\* response is enqueued, the connection's table and the pool are both empty
C13_ResetAllLeavesEmpty ==
    /\ C13_ResetAllSteps
    /\ [][\A c \in Conns :
            (hpc[c] = "reset_respond" /\ hpc'[c] # "reset_respond")
            => tasks'[c] = {} /\ pool' = {}]_vars

(* -------------------------------- C14 ----------------------------------- *)

\* C14: when handle_connection is over, after EOF or after a read error,
\* every stream that was registered has been swept (aborted, with a
\* stream_exit {-1, "connection closed"} enqueued next, in the same turn of
\* the loop), and the writer task is not aborted before the sweep is done
C14_CloseSweepsStreams ==
    /\ [](\A c \in Conns :
            hpc[c] \in {"closed", "failed"}
            => tasks[c] = {} /\ hdrain[c] = {})
    /\ [](\A c \in Conns :
            wst[c] \in {"aborting", "aborted"}
            => hdrain[c] = {} /\ hpc[c] # "sweep_send")
    /\ [][\A c \in Conns :
            (hpc[c] = "sweep" /\ hdrain'[c] # hdrain[c])
            => \E s \in hdrain[c] :
                  /\ hdrain'[c] = hdrain[c] \ {s}
                  /\ aborted'[s]
                  /\ wst' = wst
                  /\ hpc'[c] = "sweep_send" /\ hreq'[c].sid = s]_vars
    /\ [][\A c \in Conns :
            (hpc[c] = "sweep_send" /\ hpc'[c] # "sweep_send")
            => /\ hpc'[c] = "sweep"
               /\ wst' = wst
               /\ ChannelOpen(c) =>
                     outbox'[c] = Append(outbox[c],
                        StreamExit(hreq[c].sid, FALSE, "connection closed"))]_vars

(* -------------------------------- C15 ----------------------------------- *)

\* the stream task has ended, or its abort is pending
TaskStopped(s) == tpc[s] \in {"done", "killed"} \/ aborted[s]

\* the writer task has ended or its abort is pending, or every sender of
\* its channel is dropped or about to be, so that it ends once drained
WriterStopped(c) ==
    \/ wst[c] # "run"
    \/ \A s \in StreamIds : StartedBy(c, s) => TaskStopped(s)

\* C15: once handle_connection has returned, after EOF, a failed handshake
\* or a read error, every stream task the connection started has ended or
\* has been aborted, and so has its writer task
C15_NoTaskOutlivesConnection ==
    \A c \in Conns :
       hpc[c] \in {"closed", "failed"}
       => /\ \A s \in StreamIds : StartedBy(c, s) => TaskStopped(s)
          /\ WriterStopped(c)

(* -------------------------------- C16 ----------------------------------- *)

IsStreamIdResponse(f) == f.type = "response" /\ f.body = "stream_id"

\* C16: stream ids come from one counter that starts at 1 and that every
\* ssh.start advances by one as it takes its id: the ids given out are
\* exactly those below the counter, no id is answered to two ssh.start
\* calls on whatever connections, and the ids answered on one connection
\* are strictly increasing
C16_StreamIdsUnique ==
    /\ [](/\ next_stream_id >= 1
          /\ \A s \in StreamIds : tpc[s] # "none" <=> s < next_stream_id)
    /\ [](\A s \in StreamIds :
            \A c1, c2 \in Conns :
               \A i \in Where(c1, LAMBDA f : IsStartResponse(s, f)) :
                  \A j \in Where(c2, LAMBDA f : IsStartResponse(s, f)) :
                     c1 = c2 /\ i = j)
    /\ [](\A c \in Conns :
            \A i, j \in Where(c, IsStreamIdResponse) :
               i < j => outbox[c][i].n < outbox[c][j].n)
    /\ [][\A c \in Conns :
            (hpc[c] # "start_insert" /\ hpc'[c] = "start_insert")
            => /\ hreq'[c].sid = next_stream_id
               /\ next_stream_id' = next_stream_id + 1]_vars

\* two connections have each been answered a stream id: 1 and 2
C16_Witness ==
    \E c1, c2 \in Conns :
       /\ c1 # c2
       /\ Where(c1, LAMBDA f : IsStartResponse(1, f)) # {}
       /\ Where(c2, LAMBDA f : IsStartResponse(2, f)) # {}

(* -------------------------------- C17 ----------------------------------- *)

\* a stream_exit of stream s that reports a transport error
IsErrorExit(s, f) ==
    f.type = "stream_exit" /\ f.n = s /\ ~f.ok /\ f.body \in SshErrors

\* C17: a stream whose exec resolved never goes back to running it.  If it
\* resolved with a transient error, the task first removes its PoolKey,
\* sending nothing, and then sends its stream_exit; with a permanent error
\* it sends the stream_exit directly.  That step sends stream_exit {-1,
\* error} and leaves the pool as it is, and no stream reports two errors
C17_StreamErrorNoRetry ==
    /\ [](\A c \in Conns, s \in StreamIds :
            Cardinality(Where(c, LAMBDA f : IsErrorExit(s, f))) <= 1)
    /\ [][\A s \in StreamIds :
            tpc[s] \notin {"none", "running"} => tpc'[s] # "running"]_vars
    /\ [][\A s \in StreamIds :
            (tpc[s] = "drain" /\ tpc'[s] = "exit")
            => /\ tinfo[s].res \in TransientErrors
               /\ ~PoolHas(pool', tinfo[s].key)
               /\ \A k \in Keys \ {tinfo[s].key} :
                     PoolGet(pool', k) = PoolGet(pool, k)
               /\ outbox' = outbox]_vars
    /\ [][\A s \in StreamIds :
            (tpc[s] \in {"drain", "exit"} /\ tpc'[s] = "remove"
               /\ tinfo[s].res \in SshErrors)
            => /\ tinfo[s].res \in TransientErrors <=> tpc[s] = "exit"
               /\ pool' = pool
               /\ ChannelOpen(tinfo[s].owner) =>
                     outbox'[tinfo[s].owner] =
                        Append(outbox[tinfo[s].owner],
                               StreamExit(s, FALSE, tinfo[s].res))]_vars

\* a stream has reported a transient error, and its key is gone from the
\* pool where it had been inserted
C17_Witness ==
    \E s \in StreamIds :
       /\ tpc[s] \in {"remove", "done"} /\ ~aborted[s]
       /\ Where(tinfo[s].owner,
                LAMBDA f : f = StreamExit(s, FALSE, "SshError")) # {}
       /\ nextSess > 1 /\ pool = {}

(* -------------------------------- C18 ----------------------------------- *)

\* C18: when the write of an ssh.write_file resolves, the PoolKey is gone
\* from the pool if the result is a transient error, by the classification
\* ssh.exec and ssh.start use, and the pool is as it was on exit 0, on a
\* non-zero exit and on a permanent error
C18_WriteFileEviction ==
    [][\A c \in Conns, o \in WriteOutcomes \ {"timeout"} :
          WriteRunWith(c, o) =>
             IF o \in TransientErrors
             THEN ~PoolHas(pool', hreq[c].key)
             ELSE pool' = pool]_vars

(* -------------------------------- C19 ----------------------------------- *)

\* C19: what is on a connection's socket is a prefix of the frames enqueued
\* on its outbound queue, in their order, each ended by its newline; once
\* the writer task is over, by the abort at shutdown or by the queue having
\* closed, no frame is left written in part
C19_WholeFramesInOrder ==
    \A c \in Conns :
       /\ written[c] <= Len(outbox[c])
       /\ wpart[c] # "none" => written[c] < Len(outbox[c])
       /\ wst[c] \in {"aborted", "ended"} => wpart[c] = "none"

(* -------------------------------- C20 ----------------------------------- *)

\* the handler of c takes an inbound frame that does not become a request
\* (a frame was read, no handler has a new request, the others stand still)
ReadsNoRequest(c) ==
    /\ hpc[c] = "read" /\ nreq' = nreq + 1
    /\ hreq' = hreq
    /\ \A d \in Conns \ {c} : hpc'[d] = hpc[d]

\* C20: an inbound frame that is blank or does not parse changes nothing
\* but the count of frames read: no response, the same authenticated flag,
\* stream table and pool, and the handler is back at reading the next
\* frame, before and after authentication
C20_MalformedFrameIgnored ==
    [][\A c \in Conns :
          ReadsNoRequest(c)
          => /\ hpc'[c] = "read"
             /\ UNCHANGED <<authed, pvars, svars, outbox, wvars>>]_vars

(* -------------------------------- C21 ----------------------------------- *)

\* a line without the one carriage return that may end it
DropOneCR(l) ==
    IF l # <<>> /\ l[Len(l)] = "CR" THEN SubSeq(l, 1, Len(l) - 1) ELSE l

\* the output s split at each newline, a single trailing carriage return
\* dropped from each line, and what follows the last newline as the tail
RECURSIVE SplitAtNewlines(_)
SplitAtNewlines(s) ==
    LET idx == find(s, "LF")
    IN  IF idx = 0 THEN (IF s = <<>> THEN <<>> ELSE <<s>>)
        ELSE <<DropOneCR(SubSeq(s, 1, idx - 1))>>
             \o SplitAtNewlines(SubSeq(s, idx + 1, Len(s)))

\* the chunks cs put end to end
RECURSIVE Flatten(_)
Flatten(cs) == IF cs = <<>> THEN <<>> ELSE Head(cs) \o Flatten(Tail(cs))

\* what the stream task has received of the output so far
Received == SubSeq(fout, 1, Len(fout) - Len(Flatten(fchunks)))

NewlinesIn(s) == Cardinality({i \in 1..Len(s) : s[i] = "LF"})

\* C21: however the output of a stream is cut into chunks, the lines of
\* its stream_line events are, in order, the output (as text) split at each
\* newline with a single trailing carriage return dropped from each line,
\* plus the tail if the output does not end with a newline; while the task
\* is in its loops no tail has been sent, the lines sent and those still in
\* its buffer being one for each newline received
C21_LinesAreOutputSplit ==
    /\ fst = "done" => flines = SplitAtNewlines(from_utf8_lossy(fout))
    /\ fst = "loop"
         => Len(flines) + NewlinesIn(out_pending) = NewlinesIn(Received)

(* -------------------------------- C22 ----------------------------------- *)

\* C22: the bootstrap is ordered bind, mint, publish, accept: once a
\* connection has been accepted the file at the configured path is one
\* complete record with the port the listener is bound to and the token
\* hello is compared with; the file at that path is never a partly written
\* one, as it only changes by becoming the fully written temp file
C22_PublishedBeforeAccept ==
    /\ [](/\ accepted > 0 => /\ actual_port \in Ports
                             /\ server_cfg \in Tokens
                             /\ state_file = [kind |-> "record", version |-> 1,
                                              port |-> actual_port,
                                              token |-> server_cfg,
                                              protocol |-> ServerProtocol]
          /\ state_file # PartialFile)
    /\ [][state_file' # state_file
           => /\ tmp_path.kind = "record"
              /\ state_file' = tmp_path]_vars

\* a daemon started with --port 0 has accepted a connection, bound to the
\* second port and with the second token
C22_Witness ==
    /\ accepted > 0 /\ port = 0 /\ actual_port = 2 /\ server_cfg = "U"
    /\ state_file.kind = "record"

(* -------------------------------- C23 ----------------------------------- *)

\* the step is one of the handler of c
HandlerStep(c) == hpc'[c] # hpc[c] \/ hdrain'[c] # hdrain[c]

\* C23: a handler that holds the guard of its stream table does nothing
\* but the operation on the table: while it holds the guard no step of it
\* sends on the outbound queue and none takes the mutex of the session map
\* to change the pool; this covers ssh.cancel, ssh.reset_all and the sweep
\* at the close of the connection
C23_NoLockHeldAcrossAwait ==
    [][\A c \in Conns :
          TableLocked(c) /\ HandlerStep(c)
          => /\ outbox'[c] = outbox[c]
             /\ pool' = pool]_vars

(* -------------------------------- C24 ----------------------------------- *)

\* C24: the stream table of a connection has an entry only for streams
\* whose task is there: a stream whose task has sent its stream_exit and
\* has ended, its removal from the table done, has no entry, whichever way
\* that removal and the insertion by the handler are interleaved
C24_NoEntryForEndedStream ==
    \A c \in Conns : \A s \in tasks[c] : tpc[s] # "done"

(* -------------------------------- C25 ----------------------------------- *)

\* the handler of c takes a request off the socket and handles it
TakesRequest(c) ==
    /\ hpc[c] = "read" /\ nreq' = nreq + 1
    /\ hreq'[c].id = nreq' /\ hreq'[c].method \in Methods

\* C25: once the writer task of a connection has stopped on a failed write
\* of the socket, the handler of that connection takes no further request,
\* so that no SSH command is executed for it from then on
C25_WriterFailureEndsConnection ==
    [][\A c \in Conns : wst[c] = "failed" => ~TakesRequest(c)]_vars

(* -------------------------------- C26 ----------------------------------- *)

\* the write task can pass on the next chunk, or the drain task can take
\* one, or is yet to be spawned
ExecOrDrainCanStep ==
    \/ wf_pc \in {"stdin", "stdin_eof"}
    \/ Head(remote_out) = "stdout" /\ stdout_rx < ChannelCapacity
    \/ Head(remote_out) = "stderr" /\ stderr_rx < ChannelCapacity
    \/ drain = "stdout" /\ stdout_rx > 0
    \/ drain = "stderr" /\ stderr_rx > 0

\* C26: in ssh.write_file, whatever the command writes to stdout and
\* stderr and in whatever order, the exec is never stuck: as long as the
\* command has output to deliver, either execute_io can pass the next chunk
\* on or the drain task can take a chunk, so that the request ends with the
\* exit status and not by waiting for command_timeout
C26_ExecAlwaysProgresses ==
    write_task = "run" /\ remote_out # <<>> => ExecOrDrainCanStep

(* -------------------------------- C27 ----------------------------------- *)

\* C27: on the outbound queue of a connection no stream_line of a stream
\* comes after a stream_exit of that stream, be the stream_exit the task's
\* own or the one sent for it by ssh.cancel, ssh.reset_all or the closing
\* sweep
C27_NoLineAfterExit ==
    \A c \in Conns : \A i, j \in DOMAIN outbox[c] :
       (i < j /\ outbox[c][i].type = "stream_exit")
       => ~(outbox[c][j].type = "stream_line" /\ outbox[c][j].n = outbox[c][i].n)

(* -------------------------------- C28 ----------------------------------- *)

\* C28: an eviction after a transient error takes out of the pool the
\* session on which the error occurred and no other: when the first
\* attempt of ssh.exec or the command of ssh.write_file fails on a
\* handler, or the exec of a stream task fails, and the step removes an
\* entry of the pool, that entry is the session the handler or task was
\* using, never a newer one cached under the same key in the meantime
C28_EvictsFailedSessionOnly ==
    [][/\ \A c \in Conns :
             (hpc[c] \in {"exec_first", "write_run"} /\ hpc'[c] # hpc[c])
             => pool \ pool' \subseteq
                    {[key |-> hreq[c].key, sess |-> hreq[c].sess]}
       /\ \A s \in StreamIds :
             (tpc[s] = "drain" /\ tpc'[s] = "exit")
             => pool \ pool' \subseteq
                    {[key |-> tinfo[s].key, sess |-> tinfo[s].sess]}]_vars

====
